---- MODULE Spec2Model ----
(***************************************************************************)
(* Model of the drone-inspection core: the pose/frame synchronizer         *)
(* (src/src/utils/data_sync.py), the deferred-save track manager           *)
(* (src/src/detection/track_manager.py) and the two coordinate             *)
(* transformers (src/src/transform/coord_transform*.py).                   *)
(* Around them: the frame loops of the realtime, offline and orthophoto    *)
(* pipelines and the background readers (src/src/input/) that feed them.   *)
(*                                                                         *)
(* Python dicts are records whose DOMAIN is the set of keys present;       *)
(* Python None is the record None.  Times are integer milliseconds.        *)
(***************************************************************************)
EXTENDS Integers, Sequences, FiniteSets, TLC

VARIABLES
    \* ---- DataSynchronizer (data_sync.py) ----
    sync_method,      \* self.sync_method
    timestamp_tolerance, \* self.timestamp_tolerance
    max_time_diff,    \* self.max_time_diff (ms)
    pose_buffer,      \* self.pose_buffer, a sequence of pose dicts
    stats,            \* self.stats
    sync_call,        \* the last synchronizer call and what it returned
    \* ---- transformer and TrackManager configuration ----
    xcfg,             \* the transformer in use and its quality_config
    lost_threshold,   \* self.lost_threshold
    min_track_frames, \* self.min_track_frames
    crop_buffer,      \* self.crop_buffer
    \* ---- TrackManager (track_manager.py) ----
    active_tracks,    \* self.active_tracks
    saved_count,      \* self._saved_count
    discarded_count,  \* self._discarded_count
    total_updates,    \* self._total_updates
    \* ---- the caller: frame loop and output collaborator ----
    frame_count,      \* the frame number the caller is at
    step,             \* where the caller is within the frame
    ended,            \* number of flush_all calls made
    report_saved,     \* the report_gen.save calls made, in order
    tm_call,          \* the last TrackManager call and what it returned
    \* ---- history kept for the properties ----
    seen,             \* per track id: its sightings since its track was created
    removed,          \* the tracks removed from active_tracks, in order
    \* ---- one call of a transformer ----
    xf_input,         \* the transformer's configuration, the detection and the pose
    xf_output,        \* what transform_detection and transform_detections returned
    \* ---- RealtimePipeline (realtime_pipeline.py) and its telemetry clients ----
    now,              \* time.time() * 1000
    osd_source,       \* self.osd_source
    active_pose_source,        \* self.active_pose_source
    clients,          \* self.http_client / self.mqtt_client: pose_buffer, latest_pose
    http_consecutive_failures, \* self._http_consecutive_failures
    ocr_fallback_enabled,      \* self.ocr_fallback_enabled with an osd_reader
    rt_frame_count,   \* frame_count of _process_loop
    rt_call,          \* the last iteration of _process_loop: its frame and pose
    \* ---- OfflinePipeline / OrthophotoPipeline frame loop ----
    off_mode,         \* "srt" or "ocr" (offline_pipeline.py), "orthophoto"
    off_frame,        \* the number of the next frame the reader delivers
    off_done,         \* the frame loop has ended
    off_log,          \* per frame read: the pose it got and the calls made for it
    \* ---- a background reader (HttpOsdClient, DJIMQTTClient, RTSPStreamReader) ----
    th_kind,          \* which of the three classes the object is
    th_running,       \* the stop flag: self._running / self.is_running
    th_bg,            \* where the background thread is
    th_main,          \* the call the main thread is in, and where in it
    th_lock,          \* the holder of self.buffer_lock
    th_buffer,        \* self.pose_buffer / self.frame_buffer: the samples' numbers
    th_latest,        \* self.latest_pose: <<>> is None
    th_next,          \* the number of the next sample
    th_result,        \* what the last call of the main thread returned
    th_unlocked,      \* the buffer accesses made without holding buffer_lock
    th_stores_after_stop, \* appends made after the stop flag was cleared
    \* ---- RealtimePipeline.run and its threads ----
    is_running,       \* RealtimePipeline.is_running
    run_at,           \* where the main thread is in run()
    osd_sync_thread,  \* where the OSD data-sync thread is
    osd_rounds,       \* rounds of _osd_data_loop completed
    detector_input,   \* the captured frames handed to the detector, in order
    \* ---- RTSPStreamReader (rtsp_stream_reader.py) ----
    sr_is_running,    \* stream_reader.is_running
    is_opened,        \* stream_reader.is_opened
    read_thread,      \* stream_reader.read_thread: "none", "alive" or "ended"
    reconnect_count,  \* stream_reader.reconnect_count
    consecutive_failures,   \* the local of _read_loop
    max_reconnect_attempts, \* stream_reader.max_reconnect_attempts
    frame_buffer,     \* stream_reader.frame_buffer: the frames' numbers
    frame_received_count,   \* stream_reader.frame_received_count
    start_returned,   \* what the last start() call did
    \* ---- OrthophotoPipeline.run (orthophoto_pipeline.py) ----
    ortho_input,      \* what run() finds: directory, MRK file, images, visualizer
    ortho_at,         \* where run() is
    image_count,      \* images _process_images has handled
    exit_path,        \* the way run() left its try block
    csv_file_handle,  \* report_gen.csv_writer._file_handle: "open" or "closed"
    run_raised        \* the exception run() ended with, "none" if it returned

syncVars == <<sync_method, timestamp_tolerance, max_time_diff, pose_buffer, stats, sync_call>>
cfgVars == <<xcfg, lost_threshold, min_track_frames, crop_buffer>>
tmVars == <<active_tracks, saved_count, discarded_count, total_updates>>
callerVars == <<frame_count, step, ended, report_saved, tm_call>>
histVars == <<seen, removed>>
trackVars == <<cfgVars, tmVars, callerVars, histVars>>
xfVars == <<xf_input, xf_output>>
rtVars == <<now, osd_source, active_pose_source, clients, http_consecutive_failures,
            ocr_fallback_enabled, rt_frame_count, rt_call>>
offVars == <<off_mode, off_frame, off_done, off_log>>
thVars == <<th_kind, th_running, th_bg, th_main, th_lock, th_buffer, th_latest, th_next,
            th_result, th_unlocked, th_stores_after_stop>>
plVars == <<is_running, run_at, osd_sync_thread, osd_rounds, detector_input>>
srVars == <<sr_is_running, is_opened, read_thread, reconnect_count, consecutive_failures,
            max_reconnect_attempts, frame_buffer, frame_received_count, start_returned>>
runVars == <<plVars, srVars>>
orthoVars == <<ortho_input, ortho_at, image_count, exit_path, csv_file_handle, run_raised>>
vars == <<syncVars, trackVars, xfVars, rtVars, offVars, thVars, runVars, orthoVars>>

(***************************************************************************)
(* Generic helpers                                                         *)
(***************************************************************************)
None == [none |-> TRUE]

Has(d, k) == k \in DOMAIN d

Get(d, k, default) == IF k \in DOMAIN d THEN d[k] ELSE default

Abs(x) == IF x < 0 THEN -x ELSE x

Min(a, b) == IF a < b THEN a ELSE b

Max(a, b) == IF a > b THEN a ELSE b

RECURSIVE GCD(_, _)
GCD(a, b) == IF b = 0 THEN a ELSE GCD(b, a % b)

\* a fraction num/den in lowest terms (den > 0)
Frac(n, d) == LET g == GCD(Abs(n), d) IN
              IF g = 0 THEN [num |-> 0, den |-> 1] ELSE [num |-> n \div g, den |-> d \div g]

(***************************************************************************)
(* Bounds of the synchronizer model                                        *)
(***************************************************************************)
MaxBuf == 3       \* poses held at once in the modelled runs
MaxQueries == 3   \* sync_frame_with_pose calls in one modelled run

\* tolerances: the constructor default and the looser one of the spec scenario
DefaultMaxTimeDiff == 500
DefaultTimestampTolerance == 100
Tolerances == {DefaultMaxTimeDiff, 2 * DefaultMaxTimeDiff}

\* telemetry samples offered to add_pose; the last one lacks 'timestamp'
SyncPoses ==
    { [timestamp |-> 1000, latitude |-> 23, frame_number |-> 1],
      [timestamp |-> 1000, latitude |-> 24],
      [timestamp |-> 1100, latitude |-> 23, frame_number |-> 2],
      [timestamp |-> 2200, latitude |-> 23, frame_number |-> 1],
      [latitude |-> 23] }

FrameTimestamps == {1000, 1600}
\* the optional frame_number argument: <<>> is None, <<n>> is the number n
NoFrameNumber == <<>>
FrameNumberArgs == {NoFrameNumber, <<1>>, <<3>>}
SyncMethods == {"timestamp", "frame_number", "nearest"}

(***************************************************************************)
(* DataSynchronizer                                                        *)
(***************************************************************************)
\* the scan of _sync_by_timestamp: the first pose with the smallest |dt|
RECURSIVE ScanNearest(_, _, _, _, _)
ScanNearest(buf, i, frame_timestamp, min_diff, best_pose) ==
    IF i > Len(buf) THEN [min_diff |-> min_diff, best_pose |-> best_pose]
    ELSE LET time_diff == Abs(buf[i].timestamp - frame_timestamp) IN
         IF best_pose = None \/ time_diff < min_diff
         THEN ScanNearest(buf, i + 1, frame_timestamp, time_diff, buf[i])
         ELSE ScanNearest(buf, i + 1, frame_timestamp, min_diff, best_pose)

\* a 'timestamp' key holding None (a JSON null): no number, so it stands apart
\* from every time
NullTimestamp == -1

TypeError == [raises |-> "TypeError"]

\* some pose's timestamp is not a number: abs(pose['timestamp'] - t) raises
HasNullTimestamp(buf) == \E i \in 1..Len(buf) : buf[i].timestamp = NullTimestamp

\* a tolerance check that leaves the boundary out
WithinToleranceStrict(min_diff, tolerance) == min_diff < tolerance

\* the tolerance check of _sync_by_timestamp
WithinTolerance(min_diff, tolerance) == min_diff <= tolerance

\* _sync_by_timestamp: [result, stats]
SyncByTimestamp(buf, tolerance, st, frame_timestamp) ==
    LET scan == ScanNearest(buf, 1, frame_timestamp, 0, None) IN
    IF HasNullTimestamp(buf) THEN [result |-> TypeError, stats |-> st]
    ELSE IF scan.best_pose # None /\ WithinTolerance(scan.min_diff, tolerance)
    THEN LET m == st.matched_frames + 1
             a == st.avg_time_diff
         IN [result |-> scan.best_pose,
             stats |-> [st EXCEPT !.matched_frames = m,
                                  !.avg_time_diff =
                                      Frac(a.num * (m - 1) + scan.min_diff * a.den, a.den * m)]]
    ELSE [result |-> None,
          stats |-> [st EXCEPT !.unmatched_frames = @ + 1]]

RECURSIVE FindFrameNumber(_, _, _)
FindFrameNumber(buf, i, frame_number) ==
    IF i > Len(buf) THEN None
    ELSE IF Has(buf[i], "frame_number") /\ buf[i].frame_number = frame_number
         THEN buf[i]
         ELSE FindFrameNumber(buf, i + 1, frame_number)

\* _sync_by_frame_number: [result, stats]
SyncByFrameNumber(buf, st, frame_number) ==
    LET hit == FindFrameNumber(buf, 1, frame_number) IN
    IF hit # None
    THEN [result |-> hit, stats |-> [st EXCEPT !.matched_frames = @ + 1]]
    ELSE [result |-> None, stats |-> [st EXCEPT !.unmatched_frames = @ + 1]]

\* sync_frame_with_pose: [result, stats]
SyncFrameWithPoseOp(method, buf, tolerance, st, frame_timestamp, frame_number) ==
    LET st1 == [st EXCEPT !.total_frames = @ + 1] IN
    IF Len(buf) = 0
    THEN [result |-> None, stats |-> [st1 EXCEPT !.unmatched_frames = @ + 1]]
    ELSE IF method = "timestamp"
    THEN SyncByTimestamp(buf, tolerance, st1, frame_timestamp)
    ELSE IF method = "frame_number" /\ frame_number # NoFrameNumber
    THEN SyncByFrameNumber(buf, st1, frame_number[1])
    ELSE [result |-> None, stats |-> st1]

\* sorted(poses, key=lambda x: x['timestamp']): a stable sort
RECURSIVE InsertByTimestamp(_, _)
InsertByTimestamp(sorted, pose) ==
    IF sorted = <<>> THEN <<pose>>
    ELSE IF sorted[Len(sorted)].timestamp <= pose.timestamp THEN Append(sorted, pose)
    ELSE Append(InsertByTimestamp(SubSeq(sorted, 1, Len(sorted) - 1), pose),
                sorted[Len(sorted)])

RECURSIVE SortedByTimestamp(_, _)
SortedByTimestamp(poses, n) ==
    IF n = 0 THEN <<>>
    ELSE InsertByTimestamp(SortedByTimestamp(poses, n - 1), poses[n])

\* a faulty variant of the interpolation: the value of the sample before
LerpHold(before_pose, after_pose, k, t, t1, t2) == Frac(before_pose[k], 1)

\* before + ratio * (after - before) for key k, ratio = (t - t1) / (t2 - t1) or 0
Lerp(before_pose, after_pose, k, t, t1, t2) ==
    IF t2 = t1 THEN Frac(before_pose[k], 1)
    ELSE Frac(before_pose[k] * (t2 - t1) + (t - t1) * (after_pose[k] - before_pose[k]),
              t2 - t1)

KeyError == [raises |-> "KeyError"]

\* the interpolated dict of interpolate_pose
Interpolated(before_pose, after_pose, t) ==
    LET t1 == before_pose.timestamp
        t2 == after_pose.timestamp
        required == {"latitude", "longitude", "altitude"}
        angles == { k \in {"yaw", "pitch", "roll"} : Has(before_pose, k) /\ Has(after_pose, k) }
    IN IF \E k \in required : ~Has(before_pose, k) \/ ~Has(after_pose, k)
       THEN KeyError
       ELSE [k \in {"timestamp"} \cup required \cup angles |->
                IF k = "timestamp" THEN Frac(t, 1)
                ELSE Lerp(before_pose, after_pose, k, t, t1, t2)]

\* interpolate_pose(frame_timestamp, poses)
InterpolatePoseOp(frame_timestamp, poses) ==
    IF Len(poses) < 2 THEN None
    ELSE IF HasNullTimestamp(poses) THEN TypeError
    ELSE LET sorted_poses == SortedByTimestamp(poses, Len(poses))
             at_or_after == { i \in 1..Len(sorted_poses) :
                                sorted_poses[i].timestamp >= frame_timestamp }
         IN IF at_or_after = {} THEN sorted_poses[Len(sorted_poses)]
            ELSE LET j == CHOOSE i \in at_or_after : \A i2 \in at_or_after : i <= i2 IN
                 IF sorted_poses[j].timestamp <= frame_timestamp
                 THEN Interpolated(sorted_poses[j], sorted_poses[j], frame_timestamp)
                 ELSE IF j = 1 THEN sorted_poses[1]
                 ELSE Interpolated(sorted_poses[j - 1], sorted_poses[j], frame_timestamp)

NoCall == [op |-> "none"]

\* DataSynchronizer.__init__
SyncInit ==
    /\ sync_method \in SyncMethods
    /\ timestamp_tolerance = DefaultTimestampTolerance
    /\ max_time_diff \in Tolerances
    /\ pose_buffer = <<>>
    /\ stats = [total_frames |-> 0, matched_frames |-> 0, unmatched_frames |-> 0,
                avg_time_diff |-> [num |-> 0, den |-> 1]]
    /\ sync_call = NoCall

\* add_pose(pose_data)
AddPose(pose_data) ==
    /\ Len(pose_buffer) < MaxBuf
    /\ pose_buffer' = IF ~Has(pose_data, "timestamp") THEN pose_buffer
                      ELSE Append(pose_buffer, pose_data)
    /\ sync_call' = [op |-> "add_pose", pose |-> pose_data]
    /\ UNCHANGED <<sync_method, timestamp_tolerance, max_time_diff, stats, trackVars, xfVars, rtVars, offVars, thVars, runVars, orthoVars>>

\* a query that consumes the pose it returns
SyncFrameWithPoseConsuming(frame_timestamp, frame_number) ==
    /\ stats.total_frames < MaxQueries
    /\ LET r == SyncFrameWithPoseOp(sync_method, pose_buffer, max_time_diff, stats,
                                    frame_timestamp, frame_number)
       IN /\ stats' = r.stats
          /\ sync_call' = [op |-> "sync", frame_timestamp |-> frame_timestamp,
                           frame_number |-> frame_number, result |-> r.result]
          /\ pose_buffer' = SelectSeq(pose_buffer, LAMBDA x : x # r.result)
    /\ UNCHANGED <<sync_method, timestamp_tolerance, max_time_diff, trackVars, xfVars,
                   rtVars, offVars, thVars, runVars, orthoVars>>

\* sync_frame_with_pose(frame_timestamp, frame_number)
SyncFrameWithPose(frame_timestamp, frame_number) ==
    /\ stats.total_frames < MaxQueries
    /\ LET r == SyncFrameWithPoseOp(sync_method, pose_buffer, max_time_diff, stats,
                                    frame_timestamp, frame_number)
       IN /\ stats' = r.stats
          /\ sync_call' = [op |-> "sync", frame_timestamp |-> frame_timestamp,
                           frame_number |-> frame_number, result |-> r.result]
    /\ UNCHANGED <<sync_method, timestamp_tolerance, max_time_diff, pose_buffer, trackVars, xfVars, rtVars, offVars, thVars, runVars, orthoVars>>

\* interpolate_pose(frame_timestamp, list(self.pose_buffer))
InterpolatePose(frame_timestamp) ==
    /\ sync_call' = [op |-> "interpolate", frame_timestamp |-> frame_timestamp,
                     result |-> InterpolatePoseOp(frame_timestamp, pose_buffer)]
    /\ UNCHANGED <<sync_method, timestamp_tolerance, max_time_diff, pose_buffer, stats,
                   trackVars, xfVars, rtVars, offVars, thVars, runVars, orthoVars>>

\* clear_buffer()
ClearBuffer ==
    /\ pose_buffer # <<>>
    /\ pose_buffer' = <<>>
    /\ sync_call' = [op |-> "clear_buffer"]
    /\ UNCHANGED <<sync_method, timestamp_tolerance, max_time_diff, stats, trackVars, xfVars, rtVars, offVars, thVars, runVars, orthoVars>>

(***************************************************************************)
(* Fixed-point arithmetic of the coordinate transforms.                    *)
(* Angles are whole degrees (multiples of 90 in the modelled poses),       *)
(* latitude/longitude are micro-degrees, altitude is metres, ground        *)
(* offsets are millimetres, ray components are millionths.                 *)
(***************************************************************************)
Sign(x) == IF x < 0 THEN -1 ELSE 1

\* a * b / c rounded toward zero, for b >= 0 and c > 0, without overflowing
MulDiv(a, b, c) ==
    Sign(a) * ((Abs(a) \div c) * b + ((Abs(a) % c) * b) \div c)

\* a / c rounded toward zero, for c # 0
TruncDiv(a, c) == Sign(a) * Sign(c) * (Abs(a) \div Abs(c))

RECURSIVE SqrtIter(_, _)
SqrtIter(n, r) == IF r * r <= n /\ (r + 1) * (r + 1) > n THEN r
                  ELSE SqrtIter(n, (r + n \div r) \div 2)

\* floor of the square root
ISqrt(n) == IF n <= 0 THEN 0 ELSE SqrtIter(n, Min(n, 46340))

Norm360(a) == ((a % 360) + 360) % 360

\* sin and cos of a multiple of 90 degrees
SinDeg(a) == CASE Norm360(a) = 90 -> 1 [] Norm360(a) = 270 -> -1 [] OTHER -> 0

CosDeg(a) == CASE Norm360(a) = 0 -> 1 [] Norm360(a) = 180 -> -1 [] OTHER -> 0

\* cos(radians(latitude)) in thousandths, for the latitudes of the modelled poses
CosLatMilli(lat_udeg) ==
    CASE lat_udeg = 0 -> 1000
      [] lat_udeg = 60000000 -> 500
      [] OTHER -> 922

MatVec(m, v) == [i \in 1..3 |-> m[i][1] * v[1] + m[i][2] * v[2] + m[i][3] * v[3]]

MatMul(a, b) == [i \in 1..3 |-> [j \in 1..3 |->
                    a[i][1] * b[1][j] + a[i][2] * b[2][j] + a[i][3] * b[3][j]]]

RotZ(a) == << <<CosDeg(a), -SinDeg(a), 0>>, <<SinDeg(a), CosDeg(a), 0>>, <<0, 0, 1>> >>

RotY(a) == << <<CosDeg(a), 0, SinDeg(a)>>, <<0, 1, 0>>, <<-SinDeg(a), 0, CosDeg(a)>> >>

RotX(a) == << <<1, 0, 0>>, <<0, CosDeg(a), -SinDeg(a)>>, <<0, SinDeg(a), CosDeg(a)>> >>

(***************************************************************************)
(* CameraModel (camera_model.py): the default M4TD parameters              *)
(***************************************************************************)
ImageWidth == 4032
ImageHeight == 3024
SensorWidthTenthMm == 134
SensorHeightTenthMm == 96
FocalLengthMm == 7
MetersPerDegreeLat == 110540
MetersPerDegreeLon == 111320

Camera ==
    [image_width |-> ImageWidth, image_height |-> ImageHeight,
     sensor_width |-> SensorWidthTenthMm, sensor_height |-> SensorHeightTenthMm,
     focal_length |-> FocalLengthMm,
     cx |-> ImageWidth \div 2, cy |-> ImageHeight \div 2,
     use_attitude_correction |-> FALSE,
     meters_per_degree_lat |-> MetersPerDegreeLat,
     meters_per_degree_lon |-> MetersPerDegreeLon]

\* calculate_gsd: ground sample distance in micrometres per pixel
CalculateGsd(cam, altitude) ==
    [x |-> MulDiv(cam.sensor_width * altitude * 100, 1000, cam.focal_length * cam.image_width),
     y |-> MulDiv(cam.sensor_height * altitude * 100, 1000, cam.focal_length * cam.image_height)]

\* metres-to-degrees step shared by pixel_to_geo and _offset_to_latlon:
\* (east, north) in millimetres from the vehicle to <<lat, lon>> in micro-degrees
OffsetToCoord(cam, east, north, drone_lat, drone_lon) ==
    LET delta_lat == MulDiv(north, 1000, cam.meters_per_degree_lat)
        delta_lon == MulDiv(MulDiv(east, 1000, cam.meters_per_degree_lon),
                            1000, CosLatMilli(drone_lat))
    IN <<drone_lat + delta_lat, drone_lon + delta_lon>>

\* convert_wgs84_to_cgcs2000: without pyproj the coordinates pass through; with
\* it EPSG:4326 -> EPSG:4490 leaves them unchanged at micro-degree resolution
ConvertWgs84ToCgcs2000(cfg, coords_wgs84) ==
    IF ~cfg.enable_cgcs2000 THEN coords_wgs84
    ELSE [i \in 1..Len(coords_wgs84) |-> <<coords_wgs84[i][1], coords_wgs84[i][2]>>]

(***************************************************************************)
(* CoordinateTransformer (coord_transform.py): vertical projection         *)
(***************************************************************************)
\* a faulty variant of the yaw rotation: counter-clockwise
PixelToGeoPointCounterClockwise(cam, px, pose) ==
    LET drone_lat == Get(pose, "latitude", 0)
        drone_lon == Get(pose, "longitude", 0)
        gsd == CalculateGsd(cam, Get(pose, "altitude", 0))
        yaw == Get(pose, "yaw", 0)
        dx_img == TruncDiv((px[1] - cam.cx) * gsd.x, 1000)
        dy_img == TruncDiv(-(px[2] - cam.cy) * gsd.y, 1000)
        east == dx_img * CosDeg(yaw) - dy_img * SinDeg(yaw)
        north == dx_img * SinDeg(yaw) + dy_img * CosDeg(yaw)
    IN OffsetToCoord(cam, east, north, drone_lat, drone_lon)

\* one pixel of pixel_to_geo, before the datum conversion
PixelToGeoPoint(cam, px, pose) ==
    LET drone_lat == Get(pose, "latitude", 0)
        drone_lon == Get(pose, "longitude", 0)
        altitude == Get(pose, "altitude", 0)
        gsd == CalculateGsd(cam, altitude)
        yaw == Get(pose, "yaw", 0)
        delta_u == px[1] - cam.cx
        delta_v == px[2] - cam.cy
        dx_img == TruncDiv(delta_u * gsd.x, 1000)
        dy_img == TruncDiv(-delta_v * gsd.y, 1000)
        east == dx_img * CosDeg(yaw) + dy_img * SinDeg(yaw)
        north == -dx_img * SinDeg(yaw) + dy_img * CosDeg(yaw)
    IN OffsetToCoord(cam, east, north, drone_lat, drone_lon)

\* pixel_to_geo
PixelToGeo(cfg, cam, pixel_coords, pose) ==
    ConvertWgs84ToCgcs2000(cfg,
        [i \in 1..Len(pixel_coords) |-> PixelToGeoPoint(cam, pixel_coords[i], pose)])

\* pixel_to_geo_with_attitude: both branches fall back to pixel_to_geo
PixelToGeoWithAttitude(cfg, cam, pixel_coords, pose) ==
    PixelToGeo(cfg, cam, pixel_coords, pose)

RECURSIVE SumField(_, _, _)
SumField(coords, i, k) ==
    IF i > Len(coords) THEN 0 ELSE coords[i][k] + SumField(coords, i + 1, k)

\* the centre of the transformed corners
CenterGeo(geo_coords) ==
    <<TruncDiv(SumField(geo_coords, 1, 1), Len(geo_coords)),
      TruncDiv(SumField(geo_coords, 1, 2), Len(geo_coords))>>

\* d without key k
DropKey(d, k) == [x \in DOMAIN d \ {k} |-> d[x]]

\* d with key k set to v (d[k] = v on a Python dict)
SetKey(d, k, v) == [x \in DOMAIN d \cup {k} |-> IF x = k THEN v ELSE d[x]]

\* the geo fields CoordinateTransformer.transform_detection sets
AttachGeoBasic(detection, geo_coords) ==
    IF Len(geo_coords) >= 4
    THEN SetKey(SetKey(detection, "geo_coords", geo_coords),
                "center_geo", CenterGeo(geo_coords))
    ELSE SetKey(detection, "geo_coords", geo_coords)

\* CoordinateTransformer.transform_detection
TransformDetectionBasic(cfg, cam, detection, pose) ==
    IF ~Has(detection, "corners") THEN detection
    ELSE AttachGeoBasic(detection,
             IF cam.use_attitude_correction
             THEN PixelToGeoWithAttitude(cfg, cam, detection.corners, pose)
             ELSE PixelToGeo(cfg, cam, detection.corners, pose))

\* CoordinateTransformer.transform_detections
TransformDetectionsBasic(cfg, cam, detections, pose) ==
    [i \in 1..Len(detections) |-> TransformDetectionBasic(cfg, cam, detections[i], pose)]

(***************************************************************************)
(* CoordinateTransformerEnhanced (coord_transform_new.py): 3D transform    *)
(***************************************************************************)
RayScale == 1000000      \* a ray component of 1.0
RayEps == 1              \* 1e-6 in ray units

\* a faulty variant of the weak-signal test: weak only when both are low
WeakSignalBoth(cfg, gps_level, sat_count) ==
    gps_level < cfg.min_gps_level /\ sat_count < cfg.min_satellite_count

\* the weak-signal test of evaluate_gps_quality
WeakSignal(cfg, gps_level, sat_count) ==
    gps_level < cfg.min_gps_level \/ sat_count < cfg.min_satellite_count

\* evaluate_gps_quality; estimated_error in centimetres
EvaluateGpsQuality(cfg, pose) ==
    LET gps_level == Get(pose, "gps_level", 0)
        sat_count == Get(pose, "satellite_count", 0)
        positioning_state == Get(pose, "positioning_state", "GPS")
        R(q, skip, err) == [quality_level |-> q, should_skip |-> skip, estimated_error |-> err]
    IN IF ~cfg.enable_quality_control THEN R("MEDIUM", FALSE, 500)
       ELSE IF positioning_state = "RTK_FIXED" THEN R("RTK", FALSE, 5)
       ELSE IF positioning_state = "RTK_FLOAT" THEN R("HIGH", FALSE, 50)
       ELSE IF positioning_state = "DGPS" THEN R("HIGH", FALSE, 200)
       ELSE IF WeakSignal(cfg, gps_level, sat_count)
            THEN IF cfg.skip_on_low_quality THEN R("INVALID", TRUE, 1000)
                 ELSE R("LOW", FALSE, 800)
       ELSE IF gps_level >= 5 /\ sat_count >= 15 THEN R("HIGH", FALSE, 300)
       ELSE R("MEDIUM", FALSE, 500)

\* _build_rotation_matrix_numpy: R = R_z(yaw) @ R_y(pitch) @ R_x(roll)
BuildRotationMatrixNumpy(yaw, pitch, roll) ==
    MatMul(MatMul(RotZ(yaw), RotY(pitch)), RotX(roll))

\* scipy's Rotation.from_euler('zyx', [yaw, pitch, roll]): lower-case axes are
\* extrinsic rotations, about z, then the fixed y, then the fixed x
BuildRotationMatrixScipy(yaw, pitch, roll) ==
    MatMul(MatMul(RotX(roll), RotY(pitch)), RotZ(yaw))

\* _build_rotation_matrix
BuildRotationMatrix(cfg, yaw, pitch, roll) ==
    IF cfg.scipy_available THEN BuildRotationMatrixScipy(yaw, pitch, roll)
    ELSE BuildRotationMatrixNumpy(yaw, pitch, roll)

\* _pixel_to_camera_ray, one pixel: (x_norm, y_norm, 1) / |(x_norm, y_norm, 1)|
PixelToCameraRay(cam, px) ==
    LET du == px[1] - cam.cx
        dv == px[2] - cam.cy
        f == cam.focal_length
        n == ISqrt(du * du + dv * dv + f * f)
    IN <<MulDiv(du, RayScale, n), MulDiv(dv, RayScale, n), MulDiv(f, RayScale, n)>>

\* _camera_to_body, one ray
CameraToBody(ray) == <<ray[2], ray[1], -ray[3]>>

\* _body_to_world, one ray
BodyToWorld(ray, rot) == MatVec(rot, ray)

\* steps 2-4 of pixel_to_geo_3d: the world rays of the pixels
WorldRays(cfg, cam, pixel_coords, pose) ==
    LET rot == BuildRotationMatrix(cfg, Get(pose, "yaw", 0), Get(pose, "pitch", -90),
                                   Get(pose, "roll", 0))
    IN [i \in 1..Len(pixel_coords) |->
           BodyToWorld(CameraToBody(PixelToCameraRay(cam, pixel_coords[i])), rot)]

\* the two rejections of _ray_ground_intersection
RayNearlyParallel(ray) == Abs(ray[3]) < RayEps

RayPointsAway(ray, altitude) ==
    \/ altitude > 0 /\ ray[3] > 0
    \/ altitude < 0 /\ ray[3] < 0

\* what _ray_ground_intersection appends for a rejected ray
RejectedRayPoint == <<0, 0>>

\* _ray_ground_intersection, one ray: the offset from the vehicle in millimetres
RayGroundPoint(ray, altitude) ==
    IF RayNearlyParallel(ray) THEN RejectedRayPoint
    ELSE IF RayPointsAway(ray, altitude) THEN RejectedRayPoint
    ELSE <<-Sign(ray[3]) * MulDiv(altitude * ray[1], 1000, Abs(ray[3])),
           -Sign(ray[3]) * MulDiv(altitude * ray[2], 1000, Abs(ray[3]))>>

\* _ray_ground_intersection
RayGroundIntersection(rays_world, altitude) ==
    [i \in 1..Len(rays_world) |-> RayGroundPoint(rays_world[i], altitude)]

\* _offset_to_latlon
OffsetToLatLon(cam, offsets, drone_lat, drone_lon) ==
    [i \in 1..Len(offsets) |->
        OffsetToCoord(cam, offsets[i][1], offsets[i][2], drone_lat, drone_lon)]

\* pixel_to_geo_3d: [geo_coords, quality_info]
PixelToGeo3d(cfg, cam, pixel_coords, pose) ==
    LET q == EvaluateGpsQuality(cfg, pose)
        quality_info == [quality_level |-> q.quality_level,
                         estimated_error |-> q.estimated_error,
                         gps_level |-> Get(pose, "gps_level", 0),
                         satellite_count |-> Get(pose, "satellite_count", 0),
                         positioning_state |-> Get(pose, "positioning_state", "GPS")]
        drone_lat == Get(pose, "latitude", 0)
        drone_lon == Get(pose, "longitude", 0)
        altitude == Get(pose, "altitude", 0)
        rays_world == WorldRays(cfg, cam, pixel_coords, pose)
        ground_offsets == RayGroundIntersection(rays_world, altitude)
        coords_wgs84 == OffsetToLatLon(cam, ground_offsets, drone_lat, drone_lon)
    IN IF q.should_skip THEN [geo_coords |-> <<>>, quality_info |-> quality_info]
       ELSE [geo_coords |-> ConvertWgs84ToCgcs2000(cfg, coords_wgs84),
             quality_info |-> quality_info]

\* estimate_error, in centimetres
EstimateError(cfg, pose) ==
    LET gps_error == EvaluateGpsQuality(cfg, pose).estimated_error
        altitude == Get(pose, "altitude", 100)
        altitude_error == altitude
        attitude_error == MulDiv(altitude * 100, 1745, 100000)
    IN ISqrt(gps_error * gps_error + altitude_error * altitude_error
             + attitude_error * attitude_error)

\* the geo fields CoordinateTransformerEnhanced.transform_detection sets from
\* the result r of pixel_to_geo_3d; none when r has no coordinates
AttachGeoEnhanced(detection, r, estimated_error) ==
    IF r.geo_coords = <<>> THEN detection
    ELSE SetKey(SetKey(AttachGeoBasic(detection, r.geo_coords),
                       "quality_info", r.quality_info),
                "estimated_error", estimated_error)

\* CoordinateTransformerEnhanced.transform_detection
TransformDetectionEnhanced(cfg, cam, detection, pose) ==
    IF ~Has(detection, "corners") THEN detection
    ELSE AttachGeoEnhanced(detection, PixelToGeo3d(cfg, cam, detection.corners, pose),
                           EstimateError(cfg, pose))

\* the filter of CoordinateTransformerEnhanced.transform_detections
HasGeoCoords(detection) == Has(detection, "geo_coords") /\ detection.geo_coords # <<>>

\* CoordinateTransformerEnhanced.transform_detections
TransformDetectionsEnhanced(cfg, cam, detections, pose) ==
    SelectSeq([i \in 1..Len(detections) |->
                  TransformDetectionEnhanced(cfg, cam, detections[i], pose)],
              HasGeoCoords)

\* transformer.transform_detections of the configured transformer
TransformDetections(cfg, cam, detections, pose) ==
    IF cfg.use_enhanced THEN TransformDetectionsEnhanced(cfg, cam, detections, pose)
    ELSE TransformDetectionsBasic(cfg, cam, detections, pose)

(***************************************************************************)
(* TrackManager (track_manager.py).  active_tracks is a sequence of        *)
(* TrackState records in insertion order, as a Python dict keeps them.     *)
(* Scores are conf(1/100) * edge_factor(1/10) * (1 + area_bonus)(1/10^6).  *)
(***************************************************************************)
EdgePenaltyTenths == 3        \* edge_penalty 0.3
NoEdgeFactorTenths == 10      \* edge factor 1.0
AreaUnit == 1000000           \* the 1e6 of area_bonus = w * h / 1e6
AreaBonusCap == 500000        \* area_bonus is capped at 0.5
CropPad == 50

RECURSIVE SeqMin(_, _, _)
SeqMin(pts, i, k) ==
    IF i = Len(pts) THEN pts[i][k] ELSE Min(pts[i][k], SeqMin(pts, i + 1, k))

RECURSIVE SeqMax(_, _, _)
SeqMax(pts, i, k) ==
    IF i = Len(pts) THEN pts[i][k] ELSE Max(pts[i][k], SeqMax(pts, i + 1, k))

\* faulty variants of the comparison: every sighting replaces the best; a
\* lower score replaces the best
AlwaysBetter(score, best_score) == TRUE

Worse(score, best_score) == score < best_score

\* a faulty variant of the comparison: an equal score replaces the best too
BetterOrEqual(score, best_score) == score >= best_score

\* the comparison of update that decides whether a sighting replaces the best
Better(score, best_score) == score > best_score

\* _calc_quality
CalcQuality(detection) ==
    LET conf == Get(detection, "confidence", 0)
        is_on_edge == Get(detection, "is_on_edge", FALSE)
        edge_factor == IF is_on_edge THEN EdgePenaltyTenths ELSE NoEdgeFactorTenths
        corners == Get(detection, "corners", <<>>)
        area_bonus ==
            IF Len(corners) >= 4
            THEN LET w == SeqMax(corners, 1, 1) - SeqMin(corners, 1, 1)
                     h == SeqMax(corners, 1, 2) - SeqMin(corners, 1, 2)
                 IN Min(w * h, AreaBonusCap)
            ELSE 0
    IN conf * edge_factor * (AreaUnit + area_bonus)

\* _prepare_frame_buffer: the buffered image, as the source frame and the slice
\* [y1:y2, x1:x2] copied from it
PrepareFrameBuffer(crop, frame, detection) ==
    LET whole == [image |-> frame.id, x1 |-> 0, y1 |-> 0, x2 |-> frame.w, y2 |-> frame.h]
        corners == Get(detection, "corners", <<>>)
        xyxy == Get(detection, "xyxy", <<>>)
        Crop(x1, y1, x2, y2) ==
            [image |-> frame.id,
             x1 |-> Max(0, x1 - CropPad), y1 |-> Max(0, y1 - CropPad),
             x2 |-> Min(frame.w, x2 + CropPad), y2 |-> Min(frame.h, y2 + CropPad)]
    IN IF ~crop THEN whole
       ELSE IF Len(corners) < 4
            THEN IF Len(xyxy) = 4 THEN Crop(xyxy[1], xyxy[2], xyxy[3], xyxy[4]) ELSE whole
       ELSE Crop(SeqMin(corners, 1, 1), SeqMin(corners, 1, 2),
                 SeqMax(corners, 1, 1), SeqMax(corners, 1, 2))

EmptyDict == [k \in {} |-> 0]

\* pose.copy() if pose else {}
PoseCopy(pose) == IF pose = None \/ DOMAIN pose = {} THEN EmptyDict ELSE pose

\* the position of track id tid in active_tracks, 0 when it is not a key
RECURSIVE TrackIndex(_, _, _)
TrackIndex(tracks, tid, i) ==
    IF i > Len(tracks) THEN 0
    ELSE IF tracks[i].track_id = tid THEN i ELSE TrackIndex(tracks, tid, i + 1)

ActiveIds(tracks) == { tracks[i].track_id : i \in 1..Len(tracks) }

TrackOf(tracks, tid) == tracks[TrackIndex(tracks, tid, 1)]

\* the body of update's loop for one detection
UpdateOne(tracks, crop, det, frame, pose, frame_number) ==
    IF ~Has(det, "track_id") THEN tracks
    ELSE LET tid == det.track_id
             score == CalcQuality(det)
             k == TrackIndex(tracks, tid, 1)
         IN IF k = 0
            THEN Append(tracks,
                    [track_id |-> tid,
                     best_detection |-> det,
                     best_frame |-> PrepareFrameBuffer(crop, frame, det),
                     best_pose |-> PoseCopy(pose),
                     best_frame_number |-> frame_number,
                     best_score |-> score,
                     first_seen |-> frame_number,
                     last_seen |-> frame_number,
                     total_appearances |-> 1])
            ELSE LET state == [tracks[k] EXCEPT !.last_seen = frame_number,
                                                !.total_appearances = @ + 1]
                 IN IF Better(score, state.best_score)
                    THEN [tracks EXCEPT ![k] =
                            [state EXCEPT !.best_detection = det,
                                          !.best_frame = PrepareFrameBuffer(crop, frame, det),
                                          !.best_pose = PoseCopy(pose),
                                          !.best_frame_number = frame_number,
                                          !.best_score = score]]
                    ELSE [tracks EXCEPT ![k] = state]

\* update: the loop over the detections of one frame
RECURSIVE UpdateTracks(_, _, _, _, _, _, _)
UpdateTracks(tracks, crop, detections, i, frame, pose, frame_number) ==
    IF i > Len(detections) THEN tracks
    ELSE UpdateTracks(UpdateOne(tracks, crop, detections[i], frame, pose, frame_number),
                      crop, detections, i + 1, frame, pose, frame_number)

\* a faulty variant of _should_output: every track qualifies
ShouldOutputAlways(state, min_frames) == TRUE

\* _should_output
ShouldOutput(state, min_frames) == state.total_appearances >= min_frames

\* a faulty variant of the lost test: lost one frame early
IsLostEarly(state, current_frame, threshold) == current_frame - state.last_seen >= threshold

\* the lost test of flush_lost_tracks
IsLost(state, current_frame, threshold) == current_frame - state.last_seen > threshold

\* the report_gen.save call of _output_track
OutputTrackCall(cfg, cam, state) ==
    LET det == SetKey(state.best_detection, "track_id", state.track_id)
    IN [detections |-> TransformDetections(cfg, cam, <<det>>, state.best_pose),
        frame |-> state.best_frame,
        pose |-> state.best_pose,
        frame_number |-> state.best_frame_number]

(***************************************************************************)
(* Inputs of the tracker runs                                              *)
(***************************************************************************)
MaxFrame == 3                 \* the caller's last frame number

Tids == {1, 2}
DefaultLostThreshold == 30
DefaultMinTrackFrames == 3
LostThresholds == {1, 2}
MinTrackFrames == {1, DefaultMinTrackFrames}

DefaultMinGpsLevel == 3
DefaultMinSatelliteCount == 10

\* the vertical-projection transformer and the 3D one with its default quality_config
TransformerConfigs ==
    { [use_enhanced |-> e, enable_quality_control |-> TRUE,
       min_gps_level |-> DefaultMinGpsLevel,
       min_satellite_count |-> DefaultMinSatelliteCount,
       skip_on_low_quality |-> TRUE, scipy_available |-> FALSE,
       enable_cgcs2000 |-> FALSE] : e \in BOOLEAN }

Box(x1, y1, x2, y2) == << <<x1, y1>>, <<x2, y1>>, <<x2, y2>>, <<x1, y2>> >>

\* detections as the detector hands them out, before the track id is set:
\* half visible at the right border; fully visible
DetEdge == [class_id |-> 8, confidence |-> 55, is_on_edge |-> TRUE,
            corners |-> Box(3900, 1200, 4032, 1600)]
DetFull == [class_id |-> 8, confidence |-> 88, is_on_edge |-> FALSE,
            corners |-> Box(1500, 1200, 2200, 1600)]

NoDet == [nodet |-> TRUE]
DetChoices1 == {NoDet, DetEdge, DetFull}
DetChoices2 == {NoDet, DetFull}

\* the frame image of frame number n
Frame(n) == [id |-> n, w |-> ImageWidth, h |-> ImageHeight]

\* the pose of frame number n: a plain-GPS fix, strong on the even frames and
\* weak on the odd ones
FramePose(n) ==
    [timestamp |-> n, latitude |-> 60000000, longitude |-> 114000000,
     altitude |-> 100, yaw |-> 0, pitch |-> -90, roll |-> 0,
     gps_level |-> IF n % 2 = 0 THEN 5 ELSE 1,
     satellite_count |-> IF n % 2 = 0 THEN 18 ELSE 4,
     positioning_state |-> "GPS"]

\* the detection list of one frame: track 1's detection, track 2's, and possibly
\* one that carries no track id
DetectionList(d1, d2, untracked) ==
    (IF d1 = NoDet THEN <<>> ELSE <<SetKey(d1, "track_id", 1)>>)
    \o (IF d2 = NoDet THEN <<>> ELSE <<SetKey(d2, "track_id", 2)>>)
    \o (IF untracked THEN <<DetEdge>> ELSE <<>>)

(***************************************************************************)
(* TrackManager operations and their caller                                *)
(***************************************************************************)
\* the history of one detection of a frame: a sighting of its track id
SeenOne(sn, det, pose, frame_number) ==
    IF ~Has(det, "track_id") THEN sn
    ELSE [sn EXCEPT ![det.track_id] =
             Append(@, [frame_number |-> frame_number, detection |-> det,
                        pose |-> pose, score |-> CalcQuality(det)])]

RECURSIVE SeenAll(_, _, _, _, _)
SeenAll(sn, detections, i, pose, frame_number) ==
    IF i > Len(detections) THEN sn
    ELSE SeenAll(SeenOne(sn, detections[i], pose, frame_number),
                 detections, i + 1, pose, frame_number)

\* one track leaving active_tracks in flush_lost_tracks or flush_all: acc holds
\* the save calls, the counters and the return value so far
FlushOutput(acc, state, by, at_frame, call) ==
    [calls |-> Append(acc.calls, call),
     saved |-> acc.saved + 1,
     discarded |-> acc.discarded,
     flushed |-> acc.flushed + 1,
     removed |-> Append(acc.removed,
                   [track |-> state, sightings |-> seen[state.track_id], by |-> by,
                    at_frame |-> at_frame, output |-> TRUE, call |-> call])]

FlushDiscard(acc, state, by, at_frame) ==
    [acc EXCEPT !.discarded = @ + 1,
                !.removed = Append(@,
                   [track |-> state, sightings |-> seen[state.track_id], by |-> by,
                    at_frame |-> at_frame, output |-> FALSE, call |-> None])]

FlushOne(acc, state, by, at_frame) ==
    IF ShouldOutput(state, min_track_frames)
    THEN FlushOutput(acc, state, by, at_frame, OutputTrackCall(xcfg, Camera, state))
    ELSE FlushDiscard(acc, state, by, at_frame)

RECURSIVE FlushFold(_, _, _, _, _)
FlushFold(acc, states, i, by, at_frame) ==
    IF i > Len(states) THEN acc
    ELSE FlushFold(FlushOne(acc, states[i], by, at_frame), states, i + 1, by, at_frame)

FlushStart == [calls |-> <<>>, saved |-> 0, discarded |-> 0, flushed |-> 0, removed |-> <<>>]

\* the tracks flush_lost_tracks collects in to_flush
ToFlush(tracks, current_frame) ==
    LET Lost(state) == IsLost(state, current_frame, lost_threshold)
    IN SelectSeq(tracks, Lost)

\* a faulty variant of the removal: the flushed tracks stay in active_tracks
KeptAll(tracks, current_frame) == tracks

\* the tracks flush_lost_tracks leaves in active_tracks
Kept(tracks, current_frame) ==
    LET Stays(state) == ~IsLost(state, current_frame, lost_threshold)
    IN SelectSeq(tracks, Stays)

\* the state after a flush call op that left the tracks kept and did r
FlushDone(op, kept, r) ==
    /\ active_tracks' = kept
    /\ report_saved' = report_saved \o r.calls
    /\ saved_count' = saved_count + r.saved
    /\ discarded_count' = discarded_count + r.discarded
    /\ removed' = removed \o r.removed
    /\ seen' = [t \in Tids |-> IF t \in ActiveIds(kept) THEN seen[t] ELSE <<>>]
    /\ tm_call' = [op |-> op, current_frame |-> frame_count,
                   before |-> active_tracks, returned |-> r.flushed]

\* TrackManager.__init__ and the caller before the first frame
TrackStart ==
    /\ crop_buffer = TRUE
    /\ active_tracks = <<>>
    /\ saved_count = 0
    /\ discarded_count = 0
    /\ total_updates = 0
    /\ frame_count = 0
    /\ step = "update"
    /\ ended = 0
    /\ report_saved = <<>>
    /\ tm_call = NoCall
    /\ seen = [t \in Tids |-> <<>>]
    /\ removed = <<>>

TrackInit ==
    /\ xcfg \in TransformerConfigs
    /\ lost_threshold \in LostThresholds
    /\ min_track_frames \in MinTrackFrames
    /\ TrackStart

\* update(detections, frame, pose, frame_number) at the caller's frame
Update(detections, pose) ==
    /\ ended = 0
    /\ step = "update"
    /\ active_tracks' = UpdateTracks(active_tracks, crop_buffer, detections, 1,
                                     Frame(frame_count), pose, frame_count)
    /\ total_updates' = total_updates + 1
    /\ seen' = SeenAll(seen, detections, 1, pose, frame_count)
    /\ step' = "flush"
    /\ tm_call' = [op |-> "update", current_frame |-> frame_count, before |-> active_tracks]
    /\ UNCHANGED <<cfgVars, saved_count, discarded_count, frame_count, ended,
                   report_saved, removed, syncVars, xfVars, rtVars, offVars, thVars, runVars, orthoVars>>

\* flush_lost_tracks(current_frame, transformer, report_gen) at the caller's frame,
\* after update, or without it when the frame has no detections
FlushLostTracks ==
    /\ ended = 0
    /\ step \in {"update", "flush"}
    /\ FlushDone("flush_lost_tracks", Kept(active_tracks, frame_count),
                 FlushFold(FlushStart, ToFlush(active_tracks, frame_count), 1,
                           "flush_lost_tracks", frame_count))
    /\ step' = "next"
    /\ UNCHANGED <<cfgVars, total_updates, frame_count, ended, syncVars, xfVars, rtVars, offVars, thVars, runVars, orthoVars>>

\* a faulty variant of flush_all: only the lost tracks are flushed
FlushAllLostOnly ==
    /\ ended < 2
    /\ step # "flush"
    /\ FlushDone("flush_all", Kept(active_tracks, frame_count),
                 FlushFold(FlushStart, ToFlush(active_tracks, frame_count), 1,
                           "flush_all", frame_count))
    /\ ended' = ended + 1
    /\ UNCHANGED <<cfgVars, total_updates, frame_count, step, syncVars, xfVars, rtVars, offVars, thVars, runVars, orthoVars>>

\* flush_all(transformer, report_gen) when the pipeline ends, between two frames
FlushAll ==
    /\ ended < 2
    /\ step # "flush"
    /\ FlushDone("flush_all", <<>>,
                 FlushFold(FlushStart, active_tracks, 1, "flush_all", frame_count))
    /\ ended' = ended + 1
    /\ UNCHANGED <<cfgVars, total_updates, frame_count, step, syncVars, xfVars, rtVars, offVars, thVars, runVars, orthoVars>>

\* the caller's frame_count += 1, up to frame number last
NextFrameTo(last) ==
    /\ ended = 0
    /\ step = "next"
    /\ frame_count < last
    /\ frame_count' = frame_count + 1
    /\ step' = "update"
    /\ tm_call' = NoCall
    /\ UNCHANGED <<cfgVars, tmVars, ended, report_saved, seen, removed, syncVars, xfVars, rtVars, offVars, thVars, runVars, orthoVars>>

NextFrame == NextFrameTo(MaxFrame)

Next ==
    \/ \E d1 \in DetChoices1, d2 \in DetChoices2, untracked \in BOOLEAN :
           /\ DetectionList(d1, d2, untracked) # <<>>
           /\ Update(DetectionList(d1, d2, untracked), FramePose(frame_count))
    \/ FlushLostTracks
    \/ FlushAll
    \/ NextFrame

\* the synchronizer is not part of the tracker runs
SyncIdle ==
    /\ sync_method = "timestamp"
    /\ timestamp_tolerance = DefaultTimestampTolerance
    /\ max_time_diff = DefaultMaxTimeDiff
    /\ pose_buffer = <<>>
    /\ stats = [total_frames |-> 0, matched_frames |-> 0, unmatched_frames |-> 0,
                avg_time_diff |-> [num |-> 0, den |-> 1]]
    /\ sync_call = NoCall

\* no transformer call of its own is part of the tracker and synchronizer runs
XfIdle ==
    /\ xf_input = None
    /\ xf_output = None

\* no realtime pipeline is part of the tracker, synchronizer and transformer runs
RtIdle ==
    /\ now = 0
    /\ osd_source = "auto"
    /\ active_pose_source = "none"
    /\ clients = None
    /\ http_consecutive_failures = 0
    /\ ocr_fallback_enabled = FALSE
    /\ rt_frame_count = 0
    /\ rt_call = NoCall

\* no offline pipeline is part of the other runs
OffIdle ==
    /\ off_mode = "srt"
    /\ off_frame = 0
    /\ off_done = FALSE
    /\ off_log = <<>>

\* no background reader is part of the other runs
ThIdle ==
    /\ th_kind = "http"
    /\ th_running = FALSE
    /\ th_bg = "done"
    /\ th_main = [op |-> "none", at |-> "stopped"]
    /\ th_lock = "free"
    /\ th_buffer = <<>>
    /\ th_latest = <<>>
    /\ th_next = 0
    /\ th_result = [op |-> "none", value |-> <<>>, shared |-> FALSE]
    /\ th_unlocked = {}
    /\ th_stores_after_stop = 0

\* RealtimePipeline.__init__: nothing of run() has happened
PlIdle ==
    /\ is_running = FALSE
    /\ run_at = "connect"
    /\ osd_sync_thread = "unstarted"
    /\ osd_rounds = 0
    /\ detector_input = <<>>

\* RTSPStreamReader.__init__
SrInit ==
    /\ sr_is_running = FALSE
    /\ is_opened = FALSE
    /\ read_thread = "none"
    /\ reconnect_count = 0
    /\ consecutive_failures = 0
    /\ frame_buffer = <<>>
    /\ frame_received_count = 0
    /\ start_returned = "none"

\* no run() and no stream reader is part of the other runs
RunIdle == PlIdle /\ SrInit /\ max_reconnect_attempts = 0

\* no OrthophotoPipeline.run is part of the other runs
OrthoIdle ==
    /\ ortho_input = None
    /\ ortho_at = "idle"
    /\ image_count = 0
    /\ exit_path = "none"
    /\ csv_file_handle = "closed"
    /\ run_raised = "none"

Init == TrackInit /\ SyncIdle /\ XfIdle /\ RtIdle /\ OffIdle /\ ThIdle /\ RunIdle /\ OrthoIdle

Spec == Init /\ [][Next]_vars

\* the tracker is not part of the synchronizer and transformer runs
TrackIdle ==
    /\ xcfg = CHOOSE c \in TransformerConfigs : ~c.use_enhanced
    /\ lost_threshold = DefaultLostThreshold
    /\ min_track_frames = DefaultMinTrackFrames
    /\ TrackStart

(***************************************************************************)
(* The tracker as configured by default, run on two sightings of one track *)
(***************************************************************************)
\* the sightings: frame 0 at confidence 0.55 on the edge, frame 10 at 0.88
ScenarioSightings ==
    << [frame_number |-> 0, detection |-> SetKey(DetEdge, "track_id", 1)],
       [frame_number |-> 10, detection |-> SetKey(DetFull, "track_id", 1)] >>

\* the last frame: lost_threshold + 1 frames after the last sighting
ScenarioLastFrame ==
    ScenarioSightings[Len(ScenarioSightings)].frame_number + DefaultLostThreshold + 1

ScenarioInit ==
    /\ xcfg \in TransformerConfigs
    /\ lost_threshold = DefaultLostThreshold
    /\ min_track_frames \in 1..DefaultMinTrackFrames
    /\ TrackStart
    /\ SyncIdle
    /\ XfIdle
    /\ RtIdle
    /\ OffIdle
    /\ ThIdle
    /\ RunIdle /\ OrthoIdle

ScenarioNext ==
    \/ \E k \in 1..Len(ScenarioSightings) :
           /\ frame_count = ScenarioSightings[k].frame_number
           /\ Update(<<ScenarioSightings[k].detection>>, FramePose(frame_count))
    \/ /\ \/ step = "flush"
          \/ \A k \in 1..Len(ScenarioSightings) :
                 frame_count # ScenarioSightings[k].frame_number
       /\ FlushLostTracks
    \/ NextFrameTo(ScenarioLastFrame)

SpecScenario == ScenarioInit /\ [][ScenarioNext]_vars

(***************************************************************************)
(* The synchronizer runs                                                   *)
(***************************************************************************)
InitSync == SyncInit /\ TrackIdle /\ XfIdle /\ RtIdle /\ OffIdle /\ ThIdle /\ RunIdle /\ OrthoIdle

NextSync ==
    \/ \E p \in SyncPoses : AddPose(p)
    \/ \E ft \in FrameTimestamps, fn \in FrameNumberArgs :
           SyncFrameWithPose(ft, fn)
    \/ \E ft \in FrameTimestamps : InterpolatePose(ft)
    \/ ClearBuffer

SpecSync == InitSync /\ [][NextSync]_vars

(***************************************************************************)
(* The synchronizer fed with samples as the telemetry clients can build    *)
(* them: also one whose 'timestamp' key holds None                         *)
(***************************************************************************)
AddPoseSamples ==
    SyncPoses \cup {[timestamp |-> NullTimestamp, latitude |-> 23]}

NextAddPose ==
    \/ \E p \in AddPoseSamples : AddPose(p)
    \/ \E ft \in FrameTimestamps, fn \in FrameNumberArgs :
           SyncFrameWithPose(ft, fn)
    \/ \E ft \in FrameTimestamps : InterpolatePose(ft)
    \/ ClearBuffer

SpecAddPose == InitSync /\ [][NextAddPose]_vars

(***************************************************************************)
(* interpolate_pose called on sample lists in any order                    *)
(***************************************************************************)
MaxSamplesInterp == 3   \* samples handed to one interpolate_pose call

\* samples as the SRT parser and the OSD clients build them: position always,
\* attitude where the source has it; two of them carry the same timestamp
InterpSamples ==
    { [timestamp |-> 1000, latitude |-> 23000, longitude |-> 114000, altitude |-> 100,
       yaw |-> 10, pitch |-> -90, roll |-> 0],
      [timestamp |-> 2000, latitude |-> 23100, longitude |-> 114200, altitude |-> 120,
       yaw |-> 30, pitch |-> -80, roll |-> 2],
      [timestamp |-> 2000, latitude |-> 23300, longitude |-> 114100, altitude |-> 110],
      [timestamp |-> 3000, latitude |-> 23200, longitude |-> 114600, altitude |-> 90,
       yaw |-> 50] }

InterpTimestamps == {500, 1000, 1500, 2000, 2500, 3500}

InterpLists ==
    UNION { [1..n -> InterpSamples] : n \in 0..MaxSamplesInterp }

\* interpolate_pose(frame_timestamp, poses) on a list the caller passes in
InterpolateList(frame_timestamp, poses) ==
    /\ sync_call' = [op |-> "interpolate_list", frame_timestamp |-> frame_timestamp,
                     poses |-> poses,
                     result |-> InterpolatePoseOp(frame_timestamp, poses)]
    /\ UNCHANGED <<sync_method, timestamp_tolerance, max_time_diff, pose_buffer, stats,
                   trackVars, xfVars, rtVars, offVars, thVars, runVars, orthoVars>>

NextInterp ==
    \E ft \in InterpTimestamps, poses \in InterpLists : InterpolateList(ft, poses)

SpecInterp == InitSync /\ [][NextInterp]_vars

(***************************************************************************)
(* The transformer runs: one transform_detection / transform_detections    *)
(* call at a time, on a detection and a pose                               *)
(***************************************************************************)
XfYaws == {0, 90, 180, 270}
XfPitches == {-90, 0, 90}
XfRolls == {0, 180}

\* the poses: the strong and the weak fix, at the attitudes above
XfPoses ==
    { [FramePose(n) EXCEPT !.yaw = y, !.pitch = pt, !.roll = r] :
        n \in {0, 1}, y \in XfYaws, pt \in XfPitches, r \in XfRolls }

\* a detection with a corner at the principal point, and one as the detector
\* returns it for return_type "xyxy", without corners
DetCentre == [class_id |-> 8, confidence |-> 70, is_on_edge |-> FALSE,
              corners |-> Box(Camera.cx, Camera.cy, 2200, 1600)]
DetXyxy == [class_id |-> 8, confidence |-> 70, is_on_edge |-> FALSE,
            xyxy |-> <<1500, 1200, 2200, 1600>>]

XfDetections == {DetEdge, DetFull, DetCentre, DetXyxy}

\* both transformers, the 3D one with and without scipy
XfConfigs ==
    { [c EXCEPT !.scipy_available = sp] : c \in TransformerConfigs, sp \in BOOLEAN }

XfInputs ==
    { [cfg |-> c, detection |-> d, pose |-> ps] :
        c \in XfConfigs, d \in XfDetections, ps \in XfPoses }

\* transformer.transform_detection of the configured transformer
TransformDetection(cfg, cam, detection, pose) ==
    IF cfg.use_enhanced THEN TransformDetectionEnhanced(cfg, cam, detection, pose)
    ELSE TransformDetectionBasic(cfg, cam, detection, pose)

InitXf ==
    /\ xf_input \in XfInputs
    /\ xf_output = None
    /\ TrackIdle
    /\ SyncIdle
    /\ RtIdle
    /\ OffIdle
    /\ ThIdle
    /\ RunIdle /\ OrthoIdle

\* transform_detection(detection, pose) and transform_detections([detection], pose)
XfTransform ==
    /\ xf_output = None
    /\ xf_output' =
          [detection |-> TransformDetection(xf_input.cfg, Camera, xf_input.detection,
                                            xf_input.pose),
           detections |-> TransformDetections(xf_input.cfg, Camera,
                                              <<xf_input.detection>>, xf_input.pose)]
    /\ UNCHANGED <<xf_input, syncVars, trackVars, rtVars, offVars, thVars, runVars, orthoVars>>

\* the caller's next detection and pose
XfNextInput ==
    /\ xf_output # None
    /\ xf_input' \in XfInputs
    /\ xf_output' = None
    /\ UNCHANGED <<syncVars, trackVars, rtVars, offVars, thVars, runVars, orthoVars>>

NextXf == XfTransform \/ XfNextInput

SpecXf == InitXf /\ [][NextXf]_vars

(***************************************************************************)
(* The 3D transformer runs on poses of every GPS quality                   *)
(***************************************************************************)
PositioningStates == {"GPS", "RTK_FIXED", "RTK_FLOAT", "DGPS"}
GpsLevels == {1, 3, 5}
SatelliteCounts == {4, 10, 15}

\* the 3D transformer with quality control on or off, skipping or not
GpsConfigs ==
    { [c EXCEPT !.enable_quality_control = q, !.skip_on_low_quality = sk] :
        c \in {x \in TransformerConfigs : x.use_enhanced}, q \in BOOLEAN, sk \in BOOLEAN }

\* poses of every positioning state, also without the key, and of every
\* gps_level, also without the key
GpsPoses ==
    LET Full == { [FramePose(0) EXCEPT !.positioning_state = st, !.gps_level = g,
                                       !.satellite_count = n] :
                    st \in PositioningStates, g \in GpsLevels, n \in SatelliteCounts }
    IN Full
       \cup { DropKey(ps, "positioning_state") : ps \in {x \in Full : x.positioning_state = "GPS"} }
       \cup { DropKey(ps, "gps_level") : ps \in {x \in Full : x.gps_level = 5} }

GpsInputs ==
    { [cfg |-> c, detection |-> DetFull, pose |-> ps] : c \in GpsConfigs, ps \in GpsPoses }

InitGps ==
    /\ xf_input \in GpsInputs
    /\ xf_output = None
    /\ TrackIdle
    /\ SyncIdle
    /\ RtIdle
    /\ OffIdle
    /\ ThIdle
    /\ RunIdle /\ OrthoIdle

\* evaluate_gps_quality(pose), pixel_to_geo_3d(corners, pose) and the transform
\* calls on the detection
GpsEvaluate ==
    /\ xf_output = None
    /\ xf_output' =
          [quality |-> EvaluateGpsQuality(xf_input.cfg, xf_input.pose),
           geo |-> PixelToGeo3d(xf_input.cfg, Camera, xf_input.detection.corners,
                                xf_input.pose),
           detection |-> TransformDetection(xf_input.cfg, Camera, xf_input.detection,
                                            xf_input.pose),
           detections |-> TransformDetections(xf_input.cfg, Camera,
                                              <<xf_input.detection>>, xf_input.pose)]
    /\ UNCHANGED <<xf_input, syncVars, trackVars, rtVars, offVars, thVars, runVars, orthoVars>>

\* the caller's next pose
GpsNextInput ==
    /\ xf_output # None
    /\ xf_input' \in GpsInputs
    /\ xf_output' = None
    /\ UNCHANGED <<syncVars, trackVars, rtVars, offVars, thVars, runVars, orthoVars>>

NextGps == GpsEvaluate \/ GpsNextInput

SpecGps == InitGps /\ [][NextGps]_vars

(***************************************************************************)
(* The transformer runs on poses that lack a position field or hold a zero *)
(***************************************************************************)
PositionFields == {"latitude", "longitude", "altitude"}

\* the strong fix at two headings: complete, with one position field missing,
\* with one position field zero
PosePoses ==
    LET Base == { [FramePose(0) EXCEPT !.yaw = y] : y \in {0, 90} }
    IN Base
       \cup { DropKey(ps, k) : ps \in Base, k \in PositionFields }
       \cup { SetKey(ps, k, 0) : ps \in Base, k \in PositionFields }

\* pose holds a non-zero latitude, longitude and altitude
PositionComplete(pose) == \A k \in PositionFields : Has(pose, k) /\ pose[k] # 0

PoseInputs ==
    { [cfg |-> c, detection |-> d, pose |-> ps] :
        c \in XfConfigs, d \in {DetEdge, DetFull}, ps \in PosePoses }

InitPose ==
    /\ xf_input \in PoseInputs
    /\ xf_output = None
    /\ TrackIdle
    /\ SyncIdle
    /\ RtIdle
    /\ OffIdle
    /\ ThIdle
    /\ RunIdle /\ OrthoIdle

\* the caller's next detection and pose
PoseNextInput ==
    /\ xf_output # None
    /\ xf_input' \in PoseInputs
    /\ xf_output' = None
    /\ UNCHANGED <<syncVars, trackVars, rtVars, offVars, thVars, runVars, orthoVars>>

NextPose == XfTransform \/ PoseNextInput

SpecPose == InitPose /\ [][NextPose]_vars

(***************************************************************************)
(* Construction of a CameraModel from a configuration, as the pipelines do *)
(* before they build their transformer, and the first use of the instance  *)
(***************************************************************************)
\* the 'camera' section of camera_params.yaml: every key may be absent
CameraConfigs ==
    { [k \in ks |-> IF k \in zs THEN 0 ELSE
                    CASE k = "width" -> 1920
                      [] k = "height" -> 1080
                      [] k = "sensor_width" -> 64
                      [] k = "sensor_height" -> 48
                      [] OTHER -> 4] :
        ks \in SUBSET {"width", "height", "sensor_width", "sensor_height", "focal_length"},
        zs \in SUBSET {"width", "sensor_height", "focal_length"} }
    \cup { [focal_length |-> -7], [width |-> 1920, height |-> -1080] }

CameraAltitudes == {50, 100}

\* CameraModel._parse_config: the attributes of the instance
ParseConfig(camera) ==
    LET w == Get(camera, "width", ImageWidth)
        h == Get(camera, "height", ImageHeight)
    IN [Camera EXCEPT !.image_width = w, !.image_height = h,
                      !.sensor_width = Get(camera, "sensor_width", SensorWidthTenthMm),
                      !.sensor_height = Get(camera, "sensor_height", SensorHeightTenthMm),
                      !.focal_length = Get(camera, "focal_length", FocalLengthMm),
                      !.cx = TruncDiv(w, 2), !.cy = TruncDiv(h, 2)]

\* CameraModel._validate_params: the issues it logs as warnings
ValidateParams(cam) ==
    (IF cam.image_width <= 0 \/ cam.image_height <= 0 THEN {"resolution"} ELSE {})
    \cup (IF cam.sensor_width <= 0 \/ cam.sensor_height <= 0 THEN {"sensor_size"} ELSE {})
    \cup (IF cam.focal_length <= 0 THEN {"focal_length"} ELSE {})
    \cup (IF ~(0 <= cam.cx /\ cam.cx <= cam.image_width) THEN {"cx"} ELSE {})
    \cup (IF ~(0 <= cam.cy /\ cam.cy <= cam.image_height) THEN {"cy"} ELSE {})

ZeroDivisionError == [raises |-> "ZeroDivisionError"]

\* CameraModel.calculate_gsd(altitude) on an instance
CalculateGsdCall(cam, altitude) ==
    IF cam.focal_length * cam.image_width = 0 \/ cam.focal_length * cam.image_height = 0
    THEN ZeroDivisionError
    ELSE [x |-> TruncDiv(cam.sensor_width * altitude * 100000,
                         cam.focal_length * cam.image_width),
          y |-> TruncDiv(cam.sensor_height * altitude * 100000,
                         cam.focal_length * cam.image_height)]

InitCamera ==
    /\ xf_input \in { [camera_config |-> c] : c \in CameraConfigs }
    /\ xf_output = None
    /\ TrackIdle
    /\ SyncIdle
    /\ RtIdle
    /\ OffIdle
    /\ ThIdle
    /\ RunIdle /\ OrthoIdle

\* CameraModel.__init__(camera_config): _parse_config, then _validate_params,
\* which logs its issues and returns
CameraModelInit ==
    /\ xf_output = None
    /\ xf_output' = [camera |-> ParseConfig(xf_input.camera_config),
                     issues |-> ValidateParams(ParseConfig(xf_input.camera_config))]
    /\ UNCHANGED <<xf_input, syncVars, trackVars, rtVars, offVars, thVars, runVars, orthoVars>>

\* the transformer's first use of the instance: camera.calculate_gsd(altitude)
CameraCalculateGsd(altitude) ==
    /\ xf_output # None
    /\ ~Has(xf_output, "gsd")
    /\ xf_output' = [k \in DOMAIN xf_output \cup {"gsd"} |->
                        IF k = "gsd" THEN CalculateGsdCall(xf_output.camera, altitude)
                        ELSE xf_output[k]]
    /\ UNCHANGED <<xf_input, syncVars, trackVars, rtVars, offVars, thVars, runVars, orthoVars>>

\* the next configuration
CameraNextConfig ==
    /\ xf_output # None
    /\ Has(xf_output, "gsd")
    /\ xf_input' \in { [camera_config |-> c] : c \in CameraConfigs }
    /\ xf_output' = None
    /\ UNCHANGED <<syncVars, trackVars, rtVars, offVars, thVars, runVars, orthoVars>>

NextCamera ==
    \/ CameraModelInit
    \/ \E altitude \in CameraAltitudes : CameraCalculateGsd(altitude)
    \/ CameraNextConfig

SpecCamera == InitCamera /\ [][NextCamera]_vars

(***************************************************************************)
(* Batches: transform_detections on a list of detections, and the flush    *)
(* of tracks whose best detections they are; a detection may be malformed  *)
(***************************************************************************)
MaxBatch == 2   \* detections in one batch

\* a detection whose first corner is not a pair of numbers: update() reads
\* c[0] and c[1] of it and buffers it, the transformer fails to unpack it
DetMalformed == [class_id |-> 8, confidence |-> 60, is_on_edge |-> FALSE,
                 corners |-> << <<1500, 1200, 0>>, <<2200, 1200>>, <<2200, 1600>>,
                                <<1500, 1600>> >>]

BatchDetections == {DetFull, DetEdge, DetXyxy, DetMalformed}

BatchInputs ==
    { [cfg |-> c, detections |-> ds, pose |-> FramePose(n)] :
        c \in XfConfigs,
        ds \in UNION { [1..k -> BatchDetections] : k \in 1..MaxBatch },
        n \in {0, 1} }

ValueError == [raises |-> "ValueError"]

\* `for u, v in pixel_coords` fails to unpack a corner
UnpackFails(pixel_coords) == \E i \in 1..Len(pixel_coords) : Len(pixel_coords[i]) # 2

\* transform_detection(detection, pose) raises: the loop over the corners is
\* reached (the 3D transformer returns before it when the GPS quality says skip)
TransformDetectionRaises(cfg, detection, pose) ==
    /\ Has(detection, "corners")
    /\ UnpackFails(detection.corners)
    /\ cfg.use_enhanced => ~EvaluateGpsQuality(cfg, pose).should_skip

\* transform_detections(detections, pose) as a call: neither transformer
\* catches what transform_detection raises
TransformDetectionsCall(cfg, cam, detections, pose) ==
    IF \E i \in 1..Len(detections) : TransformDetectionRaises(cfg, detections[i], pose)
    THEN ValueError
    ELSE [detections |-> TransformDetections(cfg, cam, detections, pose)]

\* TrackManager._output_track on a track with this best detection: the save
\* call it makes, <<>> when the except branch is taken
OutputTrackGuarded(cfg, cam, detection, tid, pose) ==
    IF TransformDetectionRaises(cfg, SetKey(detection, "track_id", tid), pose)
    THEN <<>>
    ELSE <<[track_id |-> tid,
            detections |-> TransformDetections(cfg, cam,
                               <<SetKey(detection, "track_id", tid)>>, pose)]>>

\* the save calls of flush_all, one entry per track in active_tracks order
BatchOutputs(input) ==
    [i \in 1..Len(input.detections) |->
        OutputTrackGuarded(input.cfg, Camera, input.detections[i], i, input.pose)]

\* self._saved_count += 1 is reached only when transform_detections and
\* report_gen.save have returned
SavedCount(outputs) == Cardinality({ i \in 1..Len(outputs) : outputs[i] # <<>> })

InitBatch ==
    /\ xf_input \in BatchInputs
    /\ xf_output = None
    /\ TrackIdle
    /\ SyncIdle
    /\ RtIdle
    /\ OffIdle
    /\ ThIdle
    /\ RunIdle /\ OrthoIdle

\* transformer.transform_detections(detections, pose) called by a pipeline
BatchTransform ==
    /\ xf_output = None
    /\ xf_output' = [op |-> "transform_detections",
                     result |-> TransformDetectionsCall(xf_input.cfg, Camera,
                                    xf_input.detections, xf_input.pose)]
    /\ UNCHANGED <<xf_input, syncVars, trackVars, rtVars, offVars, thVars, runVars, orthoVars>>

\* TrackManager.flush_all with min_track_frames reached by every track, the
\* detections being the tracks' best detections (track ids 1, 2, ...)
BatchFlushAll ==
    /\ xf_output = None
    /\ xf_output' =
          [op |-> "flush_all",
           outputs |-> BatchOutputs(xf_input),
           flushed |-> Len(xf_input.detections),
           stats |-> [active_tracks |-> 0,
                      total_saved |-> SavedCount(BatchOutputs(xf_input)),
                      total_discarded |-> 0]]
    /\ UNCHANGED <<xf_input, syncVars, trackVars, rtVars, offVars, thVars, runVars, orthoVars>>

BatchNextInput ==
    /\ xf_output # None
    /\ xf_input' \in BatchInputs
    /\ xf_output' = None
    /\ UNCHANGED <<syncVars, trackVars, rtVars, offVars, thVars, runVars, orthoVars>>

NextBatch == BatchTransform \/ BatchFlushAll \/ BatchNextInput

SpecBatch == InitBatch /\ [][NextBatch]_vars

(***************************************************************************)
(* _prepare_frame_buffer on detections of any geometry: boxes inside the   *)
(* frame, across its borders and outside it                                *)
(***************************************************************************)
MaxCropFrames == 2   \* frames the caller reads after the one that was buffered

\* box edges far outside the frame, within the padding of its borders, and
\* inside it (the frame is 4032 x 3024, the padding 50)
CropXs == {-500, -100, -20, 1500, 4000, 4100, 5000}
CropYs == {-500, -100, -20, 1200, 3000, 3100, 4000}

\* the boxes <<x1, y1, x2, y2>> with x1 < x2 and y1 < y2
CropBoxes ==
    { b \in CropXs \X CropYs \X CropXs \X CropYs : b[1] < b[3] /\ b[2] < b[4] }

\* the detections: corners as the tracking detector returns them, or xyxy only
CropDetections ==
    { [class_id |-> 8, confidence |-> 70, corners |-> Box(b[1], b[2], b[3], b[4])] :
        b \in CropBoxes }
    \cup { [class_id |-> 8, confidence |-> 70, xyxy |-> b] : b \in CropBoxes }

CropInputs ==
    [crop_buffer : BOOLEAN, detection : CropDetections, frame : {Frame(0)}]

InitCrop ==
    /\ xf_input \in CropInputs
    /\ xf_output = None
    /\ TrackIdle
    /\ SyncIdle
    /\ RtIdle
    /\ OffIdle
    /\ ThIdle
    /\ RunIdle /\ OrthoIdle

\* buffered_frame = self._prepare_frame_buffer(frame, det)
CropPrepare ==
    /\ xf_output = None
    /\ xf_output' = [op |-> "prepare_frame_buffer",
                     buffered |-> PrepareFrameBuffer(xf_input.crop_buffer, xf_input.frame,
                                                     xf_input.detection),
                     of_frame |-> xf_input.frame]
    /\ UNCHANGED <<xf_input, syncVars, trackVars, rtVars, offVars, thVars, runVars, orthoVars>>

\* the caller reads the next image into its frame; the buffered image is an
\* array of its own
CropFrameChanges ==
    /\ xf_output # None
    /\ xf_input.frame.id < MaxCropFrames
    /\ xf_input' = [xf_input EXCEPT !.frame = Frame(xf_input.frame.id + 1)]
    /\ UNCHANGED <<xf_output, syncVars, trackVars, rtVars, offVars, thVars, runVars, orthoVars>>

CropNextInput ==
    /\ xf_output # None
    /\ xf_input' \in CropInputs
    /\ xf_output' = None
    /\ UNCHANGED <<syncVars, trackVars, rtVars, offVars, thVars, runVars, orthoVars>>

NextCrop == CropPrepare \/ CropFrameChanges \/ CropNextInput

SpecCrop == InitCrop /\ [][NextCrop]_vars

(***************************************************************************)
(* RealtimePipeline (realtime_pipeline.py) with its telemetry clients      *)
(* (input/http_osd_client.py, input/mqtt_client.py), after                 *)
(* _connect_osd_source has succeeded.  The clock advances in steps of      *)
(* TickMs; a client stores at most one sample per clock value.             *)
(***************************************************************************)
TickMs == 300
MaxTicks == 3
MaxRtFrames == 2
PoseBufferSize == 2
MaxSyncBuf == 4
HttpMaxFailures == 30

Sources == {"http", "mqtt"}

\* a telemetry sample as _parse_and_store / _on_osd_message build it
RtPose(t, source) ==
    [timestamp |-> t, latitude |-> 30000000, longitude |-> 114000000, altitude |-> 100,
     yaw |-> 0, pitch |-> -90, roll |-> 0, source |-> source]

\* deque(maxlen = size).append(x)
DequeAppend(buf, x, size) ==
    IF Len(buf) < size THEN Append(buf, x) ELSE Append(Tail(buf), x)

\* with buffer_lock: pose_buffer.append(pose); latest_pose = pose
StorePose(client, pose) ==
    [client EXCEPT !.pose_buffer = DequeAppend(@, pose, PoseBufferSize),
                   !.latest_pose = pose]

\* get_latest_pose()
GetLatestPose(client) == client.latest_pose

\* get_pose_buffer()
GetPoseBuffer(client) == client.pose_buffer

\* the OCR fallback of _get_pose
OcrFallback(enabled, ocr_pose, failures) ==
    IF enabled /\ ocr_pose # None
    THEN [pose |-> ocr_pose, source |-> "ocr", failures |-> failures]
    ELSE [pose |-> None, source |-> "none", failures |-> failures]

\* _get_pose: [pose, source] and the new _http_consecutive_failures
GetPose(active, osd, cl, failures, ocr_enabled, ocr_pose) ==
    IF active = "http" /\ cl.http.created
    THEN IF GetLatestPose(cl.http) # None
         THEN [pose |-> GetLatestPose(cl.http), source |-> "http", failures |-> 0]
         ELSE IF /\ osd = "auto"
                 /\ failures + 1 >= HttpMaxFailures
                 /\ cl.mqtt.created
                 /\ cl.mqtt.is_connected
                 /\ GetLatestPose(cl.mqtt) # None
              THEN [pose |-> GetLatestPose(cl.mqtt), source |-> "mqtt",
                    failures |-> failures + 1]
              ELSE OcrFallback(ocr_enabled, ocr_pose, failures + 1)
    ELSE IF active = "mqtt" /\ cl.mqtt.created /\ GetLatestPose(cl.mqtt) # None
    THEN [pose |-> GetLatestPose(cl.mqtt), source |-> "mqtt", failures |-> failures]
    ELSE OcrFallback(ocr_enabled, ocr_pose, failures)

\* what the OCR reader makes of a frame: nothing, or a pose stamped with the
\* frame's timestamp
OcrResults(frame_timestamp) == {None, RtPose(frame_timestamp, "ocr")}

\* for pose in pose_buffer: self.synchronizer.add_pose(pose); the synchronizer
\* was built without buffer_size, so its deque has no maxlen
RECURSIVE AddPoses(_, _, _)
AddPoses(buf, poses, i) ==
    IF i > Len(poses) THEN buf
    ELSE AddPoses(IF Has(poses[i], "timestamp") THEN Append(buf, poses[i]) ELSE buf,
                  poses, i + 1)

NewClient == [created |-> TRUE, is_connected |-> FALSE, pose_buffer |-> <<>>,
              latest_pose |-> None]

NoClient == [created |-> FALSE, is_connected |-> FALSE, pose_buffer |-> <<>>,
             latest_pose |-> None]

\* HttpOsdClient.connect() stores the first sample it fetched
ConnectedHttp == [StorePose(NewClient, RtPose(0, "http")) EXCEPT !.is_connected = TRUE]

ConnectedMqtt == [NewClient EXCEPT !.is_connected = TRUE]

\* RealtimePipeline.__init__ and a successful _connect_osd_source
InitRt ==
    /\ now = 0
    /\ osd_source \in {"http", "mqtt", "auto"}
    /\ active_pose_source \in
          IF osd_source = "auto" THEN Sources ELSE {osd_source}
    /\ clients \in
          { [http |-> h, mqtt |-> m] :
              h \in IF osd_source = "mqtt" THEN {NoClient}
                    ELSE IF active_pose_source = "http" THEN {ConnectedHttp}
                    ELSE {NewClient},
              m \in IF osd_source = "http" THEN {NoClient}
                    ELSE IF active_pose_source = "mqtt" THEN {ConnectedMqtt}
                    ELSE {NewClient, ConnectedMqtt} }
    /\ http_consecutive_failures = 0
    /\ ocr_fallback_enabled \in BOOLEAN
    /\ rt_frame_count = 0
    /\ rt_call = NoCall
    /\ SyncIdle
    /\ TrackIdle
    /\ XfIdle
    /\ OffIdle
    /\ ThIdle
    /\ RunIdle /\ OrthoIdle

\* time passes
Tick ==
    /\ now < MaxTicks * TickMs
    /\ now' = now + TickMs
    /\ UNCHANGED <<osd_source, active_pose_source, clients, http_consecutive_failures,
                   ocr_fallback_enabled, rt_frame_count, rt_call,
                   syncVars, trackVars, xfVars, offVars, thVars, runVars, orthoVars>>

\* a telemetry sample arrives at a connected client: one successful round of
\* HttpOsdClient._poll_loop, or DJIMQTTClient's OSD message callback
Telemetry(source) ==
    /\ clients[source].created
    /\ clients[source].is_connected
    /\ \A i \in 1..Len(clients[source].pose_buffer) :
          clients[source].pose_buffer[i].timestamp < now
    /\ clients' = [clients EXCEPT ![source] = StorePose(@, RtPose(now, source))]
    /\ UNCHANGED <<now, osd_source, active_pose_source, http_consecutive_failures,
                   ocr_fallback_enabled, rt_frame_count, rt_call,
                   syncVars, trackVars, xfVars, offVars, thVars, runVars, orthoVars>>

\* one round of _osd_data_loop
OsdDataLoop ==
    LET client == clients[active_pose_source]
        snapshot == GetPoseBuffer(client)
    IN /\ client.created
       /\ Len(pose_buffer) + Len(snapshot) <= MaxSyncBuf
       /\ snapshot # <<>>
       /\ pose_buffer' = AddPoses(pose_buffer, snapshot, 1)
       /\ sync_call' = [op |-> "add_pose", pose |-> snapshot[Len(snapshot)]]
       /\ UNCHANGED <<sync_method, timestamp_tolerance, max_time_diff, stats, rtVars, trackVars, xfVars, offVars, thVars, runVars, orthoVars>>

\* one iteration of _process_loop on a frame the stream reader delivered
ProcessFrame(ocr_pose) ==
    /\ rt_frame_count < MaxRtFrames
    /\ LET frame_timestamp == now
           got == GetPose(active_pose_source, osd_source, clients,
                          http_consecutive_failures, ocr_fallback_enabled, ocr_pose)
       IN /\ http_consecutive_failures' = got.failures
          /\ IF got.pose = None
             THEN /\ rt_call' = [op |-> "skip", frame_timestamp |-> frame_timestamp]
                  /\ UNCHANGED rt_frame_count
             ELSE /\ rt_call' = [op |-> "frame", frame_timestamp |-> frame_timestamp,
                                 frame_count |-> rt_frame_count,
                                 pose |-> got.pose, source |-> got.source]
                  /\ rt_frame_count' = rt_frame_count + 1
    /\ UNCHANGED <<now, osd_source, active_pose_source, clients, ocr_fallback_enabled,
                   syncVars, trackVars, xfVars, offVars, thVars, runVars, orthoVars>>

NextRt ==
    \/ Tick
    \/ \E source \in Sources : Telemetry(source)
    \/ OsdDataLoop
    \/ \E ocr_pose \in OcrResults(now) : ProcessFrame(ocr_pose)

SpecRt == InitRt /\ [][NextRt]_vars

(***************************************************************************)
(* The realtime pipeline in auto mode with HTTP as the active source, over *)
(* more frames than _http_max_failures: one frame per clock step, the HTTP *)
(* interface answering only at the start, MQTT delivering at any time      *)
(***************************************************************************)
MaxStreamFrames == 32     \* frames of the stream in one modelled run
HttpAnswersUntil == 300   \* the HTTP interface stops answering after this time

InitDegrade ==
    /\ InitRt
    /\ osd_source = "auto"
    /\ active_pose_source = "http"

\* a sample arrives; the HTTP poll rounds fail once the interface has stopped
StreamTelemetry(source) ==
    /\ source = "http" => now <= HttpAnswersUntil
    /\ Telemetry(source)

\* one iteration of _process_loop on the next frame of the stream, and the
\* wait for the frame after it
StreamFrame(ocr_pose) ==
    /\ now < MaxStreamFrames * TickMs
    /\ LET got == GetPose(active_pose_source, osd_source, clients,
                          http_consecutive_failures, ocr_fallback_enabled, ocr_pose)
       IN /\ http_consecutive_failures' = got.failures
          /\ IF got.pose = None
             THEN /\ rt_call' = [op |-> "skip", frame_timestamp |-> now]
                  /\ UNCHANGED rt_frame_count
             ELSE /\ rt_call' = [op |-> "frame", frame_timestamp |-> now,
                                 frame_count |-> rt_frame_count,
                                 pose |-> got.pose, source |-> got.source]
                  /\ rt_frame_count' = rt_frame_count + 1
    /\ now' = now + TickMs
    /\ UNCHANGED <<osd_source, active_pose_source, clients, ocr_fallback_enabled,
                   syncVars, trackVars, xfVars, offVars, thVars, runVars, orthoVars>>

NextDegrade ==
    \/ \E source \in Sources : StreamTelemetry(source)
    \/ \E ocr_pose \in OcrResults(now) : StreamFrame(ocr_pose)

SpecDegrade == InitDegrade /\ [][NextDegrade]_vars

(***************************************************************************)
(* The frame loops of OfflinePipeline (offline_pipeline.py, SRT or OCR     *)
(* mode) and OrthophotoPipeline (orthophoto_pipeline.py), after the poses  *)
(* of the SRT / MRK file have been added to the synchronizer               *)
(***************************************************************************)
MaxOffFrames == 3
OffFrameMs == 1000
OrthoTimeTolerance == 5000

\* metadata['timestamp'] of frame n
OffFrameTimestamp(n) == n * OffFrameMs

\* a parsed pose with timestamp t
OffPose(t) == [FramePose(0) EXCEPT !.timestamp = t]

\* the poses of the pose file, in time order: at a frame, 80 ms, 300 ms, exactly
\* 500 ms and 600 ms away from one; the second carries a frame number
OffPoseFile ==
    <<OffPose(0), SetKey(OffPose(1080), "frame_number", 1), OffPose(1300),
      OffPose(2500), OffPose(2600)>>

RECURSIVE SubSeqOf(_, _, _)
SubSeqOf(poses, keep, i) ==
    IF i > Len(poses) THEN <<>>
    ELSE (IF i \in keep THEN <<poses[i]>> ELSE <<>>) \o SubSeqOf(poses, keep, i + 1)

\* what parsing can deliver: any non-empty selection of those poses
OffPoseData ==
    { SubSeqOf(OffPoseFile, keep, 1) : keep \in (SUBSET (1..Len(OffPoseFile))) \ {{}} }

\* the frame loop goes on to detection unless it got no pose
SkipNever(pose) == FALSE

\* if pose is None: ... continue
SkipFrame(pose) == pose = None

NoSave == <<>>

\* the rest of one iteration of OfflinePipeline._process_frames, from the pose on
OfflineFrame(cfg, frame_number, frame_timestamp, sync_result, pose, detections) ==
    IF SkipFrame(pose)
    THEN [frame_number |-> frame_number, frame_timestamp |-> frame_timestamp,
          sync_result |-> sync_result, detect |-> FALSE, transform |-> FALSE,
          save |-> NoSave]
    ELSE IF detections # <<>>
    THEN [frame_number |-> frame_number, frame_timestamp |-> frame_timestamp,
          sync_result |-> sync_result, detect |-> TRUE, transform |-> TRUE,
          save |-> <<[detections |-> TransformDetections(cfg, Camera, detections, pose),
                      pose |-> pose, frame_number |-> frame_number]>>]
    ELSE [frame_number |-> frame_number, frame_timestamp |-> frame_timestamp,
          sync_result |-> sync_result, detect |-> TRUE, transform |-> FALSE,
          save |-> NoSave]

\* the save of OrthophotoPipeline._process_images: only a non-empty list
OrthoSave(transformed, pose, frame_number) ==
    IF transformed # <<>>
    THEN <<[detections |-> transformed, pose |-> pose, frame_number |-> frame_number]>>
    ELSE NoSave

\* the rest of one iteration of OrthophotoPipeline._process_images
OrthophotoFrame(cfg, frame_number, frame_timestamp, sync_result, pose, detections) ==
    IF SkipFrame(pose)
    THEN [frame_number |-> frame_number, frame_timestamp |-> frame_timestamp,
          sync_result |-> sync_result, detect |-> FALSE, transform |-> FALSE,
          save |-> NoSave]
    ELSE IF detections # <<>>
    THEN [frame_number |-> frame_number, frame_timestamp |-> frame_timestamp,
          sync_result |-> sync_result, detect |-> TRUE, transform |-> TRUE,
          save |-> OrthoSave(TransformDetections(cfg, Camera, detections, pose),
                             pose, frame_number)]
    ELSE [frame_number |-> frame_number, frame_timestamp |-> frame_timestamp,
          sync_result |-> sync_result, detect |-> TRUE, transform |-> FALSE,
          save |-> NoSave]

\* OfflinePipeline.__init__ / OrthophotoPipeline.__init__ and the loading of
\* the poses in run()
InitOffline ==
    /\ off_mode \in {"srt", "ocr", "orthophoto"}
    /\ sync_method \in IF off_mode = "orthophoto" THEN {"timestamp"}
                       ELSE {"timestamp", "frame_number"}
    /\ timestamp_tolerance \in IF off_mode = "orthophoto" THEN {OrthoTimeTolerance}
                               ELSE {DefaultTimestampTolerance, OrthoTimeTolerance}
    /\ max_time_diff = IF off_mode = "orthophoto" THEN OrthoTimeTolerance
                       ELSE DefaultMaxTimeDiff
    /\ pose_buffer \in IF off_mode = "ocr" THEN {<<>>} ELSE OffPoseData
    /\ stats = [total_frames |-> 0, matched_frames |-> 0, unmatched_frames |-> 0,
                avg_time_diff |-> [num |-> 0, den |-> 1]]
    /\ sync_call = NoCall
    /\ off_frame = 0
    /\ off_done = FALSE
    /\ off_log = <<>>
    /\ TrackIdle
    /\ XfIdle
    /\ RtIdle
    /\ ThIdle
    /\ RunIdle /\ OrthoIdle

\* one iteration of the frame loop in SRT mode or of the image loop
ProcessSyncedFrame(detections) ==
    /\ off_mode \in {"srt", "orthophoto"}
    /\ ~off_done
    /\ off_frame < MaxOffFrames
    /\ LET frame_timestamp == OffFrameTimestamp(off_frame)
           r == SyncFrameWithPoseOp(sync_method, pose_buffer, max_time_diff, stats,
                                    frame_timestamp, <<off_frame>>)
       IN /\ stats' = r.stats
          /\ sync_call' = [op |-> "sync", frame_timestamp |-> frame_timestamp,
                           frame_number |-> <<off_frame>>, result |-> r.result]
          /\ off_log' = Append(off_log,
                IF off_mode = "srt"
                THEN OfflineFrame(xcfg, off_frame, frame_timestamp, r.result, r.result,
                                  detections)
                ELSE OrthophotoFrame(xcfg, off_frame, frame_timestamp, r.result, r.result,
                                     detections))
    /\ off_frame' = off_frame + 1
    /\ UNCHANGED <<sync_method, timestamp_tolerance, max_time_diff, pose_buffer,
                   off_mode, off_done, trackVars, xfVars, rtVars, thVars, runVars, orthoVars>>

\* one iteration of the frame loop in OCR mode
ProcessOcrFrame(ocr_pose, detections) ==
    /\ off_mode = "ocr"
    /\ ~off_done
    /\ off_frame < MaxOffFrames
    /\ LET frame_timestamp == OffFrameTimestamp(off_frame) IN
       /\ pose_buffer' = IF ocr_pose # None THEN Append(pose_buffer, ocr_pose)
                         ELSE pose_buffer
       /\ sync_call' = IF ocr_pose # None THEN [op |-> "add_pose", pose |-> ocr_pose]
                       ELSE sync_call
       /\ off_log' = Append(off_log,
              OfflineFrame(xcfg, off_frame, frame_timestamp, None, ocr_pose, detections))
    /\ off_frame' = off_frame + 1
    /\ UNCHANGED <<sync_method, timestamp_tolerance, max_time_diff, stats,
                   off_mode, off_done, trackVars, xfVars, rtVars, thVars, runVars, orthoVars>>

\* the reader has no more frames: break
EndOfInput ==
    /\ ~off_done
    /\ off_frame = MaxOffFrames
    /\ off_done' = TRUE
    /\ UNCHANGED <<syncVars, off_mode, off_frame, off_log, trackVars, xfVars, rtVars, thVars, runVars, orthoVars>>

OffDetections == {<<>>, <<DetFull>>}

NextOffline ==
    \/ \E detections \in OffDetections : ProcessSyncedFrame(detections)
    \/ \E detections \in OffDetections :
          \E ocr_pose \in {None, SetKey(OffPose(OffFrameTimestamp(off_frame)),
                                        "frame_number", off_frame)} :
              ProcessOcrFrame(ocr_pose, detections)
    \/ EndOfInput

SpecOffline == InitOffline /\ [][NextOffline]_vars

(***************************************************************************)
(* The background readers: HttpOsdClient (input/http_osd_client.py) with   *)
(* its poll thread, DJIMQTTClient (input/mqtt_client.py) with the thread   *)
(* that runs its message callback, RTSPStreamReader                        *)
(* (input/rtsp_stream_reader.py) with its read thread; and the main thread *)
(* calling the object's methods.  A `with self.buffer_lock:` block is two  *)
(* steps: taking the lock, then the body and the release.                  *)
(***************************************************************************)
MaxSamples == 3

ThKinds == {"http", "mqtt", "rtsp"}

\* the methods the main thread calls while the reader runs
MainOps(kind) ==
    IF kind = "rtsp" THEN {"read", "get_frame", "get_buffer_size", "clear_buffer"}
    ELSE {"get_latest_pose", "get_pose_buffer", "clear_buffer", "get_stats"}

\* a loop that goes on whatever the flag says
LoopAlways(running) == TRUE

\* while self._running: / while self.is_running:
LoopCondition(running) == running

NoResult == [op |-> "none", value |-> <<>>, shared |-> FALSE]

\* the object after connect() / start(): the thread runs, nothing is buffered
InitThreads ==
    /\ th_kind \in ThKinds
    /\ th_running = TRUE
    /\ th_bg = "check"
    /\ th_main = [op |-> "none", at |-> "idle"]
    /\ th_lock = "free"
    /\ th_buffer = <<>>
    /\ th_latest = <<>>
    /\ th_next = 0
    /\ th_result = NoResult
    /\ th_unlocked = {}
    /\ th_stores_after_stop = 0
    /\ SyncIdle
    /\ TrackIdle
    /\ XfIdle
    /\ RtIdle
    /\ OffIdle
    /\ RunIdle /\ OrthoIdle

\* the background thread tests its loop condition
BgCheck ==
    /\ th_bg = "check"
    /\ th_bg' = IF LoopCondition(th_running) THEN "io" ELSE "done"
    /\ UNCHANGED <<th_kind, th_running, th_main, th_lock, th_buffer, th_latest, th_next,
                   th_result, th_unlocked, th_stores_after_stop,
                   syncVars, trackVars, xfVars, rtVars, offVars, runVars, orthoVars>>

\* the request, the read or the wait for a message returns: with a sample, or
\* with an error (then the thread sleeps and tests the condition again)
BgIo(outcome) ==
    /\ th_bg = "io"
    /\ outcome = "data" => th_next < MaxSamples
    /\ th_bg' = IF outcome = "data" THEN "want_lock" ELSE "check"
    /\ UNCHANGED <<th_kind, th_running, th_main, th_lock, th_buffer, th_latest, th_next,
                   th_result, th_unlocked, th_stores_after_stop,
                   syncVars, trackVars, xfVars, rtVars, offVars, runVars, orthoVars>>

\* _read_loop gives up: the stream is closed and no reconnect is left
BgGiveUp ==
    /\ th_kind = "rtsp"
    /\ th_bg = "io"
    /\ th_bg' = "done"
    /\ UNCHANGED <<th_kind, th_running, th_main, th_lock, th_buffer, th_latest, th_next,
                   th_result, th_unlocked, th_stores_after_stop,
                   syncVars, trackVars, xfVars, rtVars, offVars, runVars, orthoVars>>

\* a thread that goes on to the append without taking the lock
BgAcquireSkipped ==
    /\ th_bg = "want_lock"
    /\ th_bg' = "locked"
    /\ UNCHANGED <<th_kind, th_running, th_main, th_lock, th_buffer, th_latest, th_next,
                   th_result, th_unlocked, th_stores_after_stop,
                   syncVars, trackVars, xfVars, rtVars, offVars, runVars, orthoVars>>

\* with self.buffer_lock: (the background thread)
BgAcquire ==
    /\ th_bg = "want_lock"
    /\ th_lock = "free"
    /\ th_lock' = "bg"
    /\ th_bg' = "locked"
    /\ UNCHANGED <<th_kind, th_running, th_main, th_buffer, th_latest, th_next,
                   th_result, th_unlocked, th_stores_after_stop,
                   syncVars, trackVars, xfVars, rtVars, offVars, runVars, orthoVars>>

\* self.pose_buffer.append(pose) / self.frame_buffer.append(...): the first
\* statement of the locked block
BgAppend ==
    /\ th_bg = "locked"
    /\ th_buffer' = DequeAppend(th_buffer, th_next, PoseBufferSize)
    /\ th_unlocked' = IF th_lock = "bg" THEN th_unlocked
                      ELSE th_unlocked \cup {[thread |-> "bg", access |-> "append"]}
    /\ th_bg' = "appended"
    /\ UNCHANGED <<th_kind, th_running, th_main, th_lock, th_latest, th_next, th_result,
                   th_stores_after_stop, syncVars, trackVars, xfVars, rtVars, offVars, runVars, orthoVars>>

\* self.latest_pose = pose (the telemetry clients); then the block ends and the
\* lock is released
BgStore ==
    /\ th_bg = "appended"
    /\ th_latest' = IF th_kind = "rtsp" THEN th_latest ELSE <<th_next>>
    /\ th_next' = th_next + 1
    /\ th_lock' = IF th_lock = "bg" THEN "free" ELSE th_lock
    /\ th_stores_after_stop' = IF th_running THEN th_stores_after_stop
                               ELSE th_stores_after_stop + 1
    /\ th_bg' = "check"
    /\ UNCHANGED <<th_kind, th_running, th_main, th_buffer, th_result, th_unlocked,
                   syncVars, trackVars, xfVars, rtVars, offVars, runVars, orthoVars>>

\* the main thread calls a method of the object
MainCall(op) ==
    /\ th_main.at = "idle"
    /\ op \in MainOps(th_kind)
    /\ th_main' = [op |-> op, at |-> "want_lock"]
    /\ UNCHANGED <<th_kind, th_running, th_bg, th_lock, th_buffer, th_latest, th_next,
                   th_result, th_unlocked, th_stores_after_stop,
                   syncVars, trackVars, xfVars, rtVars, offVars, runVars, orthoVars>>

\* with self.buffer_lock: (the main thread)
MainAcquire ==
    /\ th_main.at = "want_lock"
    /\ th_lock = "free"
    /\ th_lock' = "main"
    /\ th_main' = [th_main EXCEPT !.at = "locked"]
    /\ UNCHANGED <<th_kind, th_running, th_bg, th_buffer, th_latest, th_next,
                   th_result, th_unlocked, th_stores_after_stop,
                   syncVars, trackVars, xfVars, rtVars, offVars, runVars, orthoVars>>

\* what the method returns from inside its locked block: a copy of the latest
\* pose, a list copy of the buffer, the oldest frame, a copy of the newest
\* frame, the length
LockedValue(op, buffer, latest) ==
    IF op = "get_latest_pose" THEN latest
    ELSE IF op = "get_pose_buffer" THEN buffer
    ELSE IF op = "read" THEN (IF buffer = <<>> THEN <<>> ELSE <<Head(buffer)>>)
    ELSE IF op = "get_frame" THEN (IF buffer = <<>> THEN <<>> ELSE <<buffer[Len(buffer)]>>)
    ELSE IF op \in {"get_buffer_size", "get_stats"} THEN <<Len(buffer)>>
    ELSE <<>>

\* the body of the locked block and the release of the lock
MainBody ==
    /\ th_main.at = "locked"
    /\ th_result' = [op |-> th_main.op,
                     value |-> LockedValue(th_main.op, th_buffer, th_latest),
                     shared |-> FALSE]
    /\ th_buffer' = IF th_main.op = "clear_buffer" THEN <<>>
                    ELSE IF th_main.op = "read" /\ th_buffer # <<>> THEN Tail(th_buffer)
                    ELSE th_buffer
    /\ th_latest' = IF th_main.op = "clear_buffer" THEN <<>> ELSE th_latest
    /\ th_lock' = "free"
    /\ th_main' = IF th_main.op = "get_stats" THEN [th_main EXCEPT !.at = "tail"]
                  ELSE [th_main EXCEPT !.at = "idle"]
    /\ UNCHANGED <<th_kind, th_running, th_bg, th_next, th_unlocked, th_stores_after_stop,
                   syncVars, trackVars, xfVars, rtVars, offVars, runVars, orthoVars>>

\* get_stats after its locked block: 'has_pose_data': self.latest_pose is not None
MainStatsTail ==
    /\ th_main.at = "tail"
    /\ th_unlocked' = IF th_lock = "main" THEN th_unlocked
                      ELSE th_unlocked \cup {[thread |-> "main", access |-> "read latest_pose"]}
    /\ th_result' = [th_result EXCEPT !.value = @ \o <<Len(th_latest)>>]
    /\ th_main' = [th_main EXCEPT !.at = "idle"]
    /\ UNCHANGED <<th_kind, th_running, th_bg, th_lock, th_buffer, th_latest, th_next,
                   th_stores_after_stop, syncVars, trackVars, xfVars, rtVars, offVars, runVars, orthoVars>>

\* stop() / disconnect(): clear the flag, then join the thread if it is alive
Stop ==
    /\ th_main.at = "idle"
    /\ th_running' = FALSE
    /\ th_main' = [op |-> "stop", at |-> IF th_bg # "done" THEN "joining" ELSE "stopped"]
    /\ UNCHANGED <<th_kind, th_bg, th_lock, th_buffer, th_latest, th_next,
                   th_result, th_unlocked, th_stores_after_stop,
                   syncVars, trackVars, xfVars, rtVars, offVars, runVars, orthoVars>>

\* join(timeout) returns because the thread has ended
JoinReturn ==
    /\ th_main.at = "joining"
    /\ th_bg = "done"
    /\ th_main' = [th_main EXCEPT !.at = "stopped"]
    /\ UNCHANGED <<th_kind, th_running, th_bg, th_lock, th_buffer, th_latest, th_next,
                   th_result, th_unlocked, th_stores_after_stop,
                   syncVars, trackVars, xfVars, rtVars, offVars, runVars, orthoVars>>

\* join(timeout) returns because the timeout has passed
JoinTimeout ==
    /\ th_main.at = "joining"
    /\ th_bg # "done"
    /\ th_main' = [th_main EXCEPT !.at = "stopped"]
    /\ UNCHANGED <<th_kind, th_running, th_bg, th_lock, th_buffer, th_latest, th_next,
                   th_result, th_unlocked, th_stores_after_stop,
                   syncVars, trackVars, xfVars, rtVars, offVars, runVars, orthoVars>>

BgNext ==
    \/ BgCheck
    \/ \E outcome \in {"data", "error"} : BgIo(outcome)
    \/ BgGiveUp
    \/ BgAcquire
    \/ BgAppend
    \/ BgStore

NextThreads ==
    \/ BgCheck
    \/ \E outcome \in {"data", "error"} : BgIo(outcome)
    \/ BgGiveUp
    \/ BgAcquire
    \/ BgAppend
    \/ BgStore
    \/ \E op \in MainOps(th_kind) : MainCall(op)
    \/ MainAcquire
    \/ MainBody
    \/ MainStatsTail
    \/ Stop
    \/ JoinReturn
    \/ JoinTimeout

SpecThreads == InitThreads /\ [][NextThreads]_vars

\* the scheduler runs a runnable background thread, the in-flight request or
\* read returns, and a join with a timeout returns
SpecThreadsFair ==
    /\ InitThreads
    /\ [][NextThreads]_vars
    /\ WF_vars(BgNext)
    /\ WF_vars(JoinReturn \/ JoinTimeout)

(***************************************************************************)
(* RTSPStreamReader (input/rtsp_stream_reader.py): start, stop and the     *)
(* read thread.  One iteration of _read_loop is one step.                  *)
(***************************************************************************)
MaxConsecutiveFailures == 10   \* max_consecutive_failures of _read_loop
FrameBufferSize == 2           \* buffer_size of the modelled reader
MaxCaptured == 3               \* frames the stream delivers in one modelled run
MaxReconnects == 3             \* failed reconnects in a row in one modelled run
ReconnectLimits == {0, 1, 2}   \* max_reconnect_attempts; 0 is "no limit"

\* _should_reconnect
ShouldReconnect ==
    max_reconnect_attempts = 0 \/ reconnect_count < max_reconnect_attempts

\* the threshold test of _read_loop after a failed read
DropsConnection(failures) == failures >= MaxConsecutiveFailures

\* start() as far as the reader's own fields go; opened is what open() returns
\* when the stream is not open yet
StartReader(opened) ==
    IF sr_is_running
    THEN /\ start_returned' = "already running"
         /\ UNCHANGED <<sr_is_running, is_opened, read_thread, reconnect_count,
                        consecutive_failures>>
    ELSE IF ~is_opened /\ ~opened
    THEN /\ start_returned' = "not opened"
         /\ UNCHANGED <<sr_is_running, is_opened, read_thread, reconnect_count,
                        consecutive_failures>>
    ELSE /\ start_returned' = "started"
         /\ is_opened' = TRUE
         /\ reconnect_count' = IF is_opened THEN reconnect_count ELSE 0
         /\ sr_is_running' = TRUE
         /\ read_thread' = "alive"
         /\ consecutive_failures' = 0

\* stop(): clears the flag; the join waits for the read thread to see it
StopReader ==
    /\ sr_is_running' = FALSE
    /\ UNCHANGED read_thread

\* the read thread finds is_running cleared and leaves the loop
ReadLoopEnd ==
    /\ read_thread = "alive"
    /\ ~sr_is_running
    /\ read_thread' = "ended"
    /\ UNCHANGED <<sr_is_running, is_opened, reconnect_count, consecutive_failures,
                   max_reconnect_attempts, frame_buffer, frame_received_count,
                   start_returned, plVars,
                   syncVars, trackVars, xfVars, rtVars, offVars, thVars, orthoVars>>

\* not connected and _should_reconnect says no: break
ReadGiveUp ==
    /\ read_thread = "alive"
    /\ sr_is_running
    /\ ~is_opened
    /\ ~ShouldReconnect
    /\ read_thread' = "ended"
    /\ UNCHANGED <<sr_is_running, is_opened, reconnect_count, consecutive_failures,
                   max_reconnect_attempts, frame_buffer, frame_received_count,
                   start_returned, plVars,
                   syncVars, trackVars, xfVars, rtVars, offVars, thVars, orthoVars>>

\* not connected, _connect() succeeds
ReconnectOk ==
    /\ read_thread = "alive"
    /\ sr_is_running
    /\ ~is_opened
    /\ ShouldReconnect
    /\ is_opened' = TRUE
    /\ reconnect_count' = 0
    /\ consecutive_failures' = 0
    /\ UNCHANGED <<sr_is_running, read_thread, max_reconnect_attempts, frame_buffer,
                   frame_received_count, start_returned, plVars,
                   syncVars, trackVars, xfVars, rtVars, offVars, thVars, orthoVars>>

\* not connected, _connect() fails
ReconnectFail ==
    /\ read_thread = "alive"
    /\ sr_is_running
    /\ ~is_opened
    /\ ShouldReconnect
    /\ reconnect_count < MaxReconnects
    /\ reconnect_count' = reconnect_count + 1
    /\ UNCHANGED <<sr_is_running, is_opened, read_thread, consecutive_failures,
                   max_reconnect_attempts, frame_buffer, frame_received_count,
                   start_returned, plVars,
                   syncVars, trackVars, xfVars, rtVars, offVars, thVars, orthoVars>>

\* cap.read() delivers the next frame of the stream
ReadFrame ==
    /\ read_thread = "alive"
    /\ sr_is_running
    /\ is_opened
    /\ frame_received_count < MaxCaptured
    /\ frame_buffer' = DequeAppend(frame_buffer, frame_received_count + 1, FrameBufferSize)
    /\ frame_received_count' = frame_received_count + 1
    /\ consecutive_failures' = 0
    /\ UNCHANGED <<sr_is_running, is_opened, read_thread, reconnect_count,
                   max_reconnect_attempts, start_returned, plVars,
                   syncVars, trackVars, xfVars, rtVars, offVars, thVars, orthoVars>>

\* cap.read() fails
ReadFails ==
    /\ read_thread = "alive"
    /\ sr_is_running
    /\ is_opened
    /\ consecutive_failures' = consecutive_failures + 1
    /\ is_opened' = ~DropsConnection(consecutive_failures + 1)
    /\ UNCHANGED <<sr_is_running, read_thread, reconnect_count, max_reconnect_attempts,
                   frame_buffer, frame_received_count, start_returned, plVars,
                   syncVars, trackVars, xfVars, rtVars, offVars, thVars, orthoVars>>

ReadLoop ==
    ReadLoopEnd \/ ReadGiveUp \/ ReconnectOk \/ ReconnectFail \/ ReadFrame \/ ReadFails

\* the main thread calls start(), not while a stop() is waiting in its join
Start(opened) ==
    /\ read_thread = "alive" => sr_is_running
    /\ StartReader(opened)
    /\ UNCHANGED <<max_reconnect_attempts, frame_buffer, frame_received_count, plVars,
                   syncVars, trackVars, xfVars, rtVars, offVars, thVars, orthoVars>>

\* the main thread calls stop() on a started reader
StopCall ==
    /\ read_thread # "none"
    /\ StopReader
    /\ start_returned' = "none"
    /\ UNCHANGED <<is_opened, reconnect_count, consecutive_failures,
                   max_reconnect_attempts, frame_buffer, frame_received_count, plVars,
                   syncVars, trackVars, xfVars, rtVars, offVars, thVars, orthoVars>>

InitReconnect ==
    /\ SrInit
    /\ max_reconnect_attempts \in ReconnectLimits
    /\ PlIdle
    /\ SyncIdle
    /\ TrackIdle
    /\ XfIdle
    /\ RtIdle
    /\ OffIdle
    /\ ThIdle
    /\ OrthoIdle

NextReconnect ==
    \/ \E opened \in BOOLEAN : Start(opened)
    \/ StopCall
    \/ ReadLoop

SpecReconnect == InitReconnect /\ [][NextReconnect]_vars

(***************************************************************************)
(* RealtimePipeline.run (realtime_pipeline.py): the main thread from       *)
(* _connect_osd_source to _cleanup, the OSD data-sync thread, and the      *)
(* stream reader's read thread                                             *)
(***************************************************************************)
MaxRunFrames == 3    \* frames handed to the detector in one modelled run
MaxOsdRounds == 2    \* rounds of _osd_data_loop counted

\* _connect_osd_source() returns: on failure run() returns through _cleanup
RunConnect(connected) ==
    /\ run_at = "connect"
    /\ run_at' = IF connected THEN "start_osd" ELSE "cleanup"
    /\ UNCHANGED <<is_running, osd_sync_thread, osd_rounds, detector_input, srVars,
                   syncVars, trackVars, xfVars, rtVars, offVars, thVars, orthoVars>>

\* osd_sync_thread.start()
RunStartOsd ==
    /\ run_at = "start_osd"
    /\ osd_sync_thread' = "check"
    /\ run_at' = "start_stream"
    /\ UNCHANGED <<is_running, osd_rounds, detector_input, srVars,
                   syncVars, trackVars, xfVars, rtVars, offVars, thVars, orthoVars>>

\* self.stream_reader.start()
RunStartStream(opened) ==
    /\ run_at = "start_stream"
    /\ StartReader(opened)
    /\ run_at' = "sleep"
    /\ UNCHANGED <<is_running, osd_sync_thread, osd_rounds, detector_input,
                   max_reconnect_attempts, frame_buffer, frame_received_count,
                   syncVars, trackVars, xfVars, rtVars, offVars, thVars, orthoVars>>

\* time.sleep(2)
RunSleep ==
    /\ run_at = "sleep"
    /\ run_at' = "set_running"
    /\ UNCHANGED <<is_running, osd_sync_thread, osd_rounds, detector_input, srVars,
                   syncVars, trackVars, xfVars, rtVars, offVars, thVars, orthoVars>>

\* self.is_running = True, and the call of _process_loop
RunSetRunning ==
    /\ run_at = "set_running"
    /\ is_running' = TRUE
    /\ run_at' = "loop"
    /\ UNCHANGED <<osd_sync_thread, osd_rounds, detector_input, srVars,
                   syncVars, trackVars, xfVars, rtVars, offVars, thVars, orthoVars>>

\* the buffer get_frame() leaves behind: it returns a copy of the newest frame
GetFrameLeaves(buf) == buf

\* one iteration of _process_loop: get_frame(), and with a frame (a pose is
\* at hand) the detector call on it
ProcessLoopStep ==
    /\ run_at = "loop"
    /\ is_running
    /\ Len(detector_input) < MaxRunFrames
    /\ IF frame_buffer = <<>>
       THEN UNCHANGED <<detector_input, frame_buffer>>
       ELSE /\ detector_input' = Append(detector_input, frame_buffer[Len(frame_buffer)])
            /\ frame_buffer' = GetFrameLeaves(frame_buffer)
    /\ UNCHANGED <<is_running, run_at, osd_sync_thread, osd_rounds,
                   sr_is_running, is_opened, read_thread, reconnect_count,
                   consecutive_failures, max_reconnect_attempts, frame_received_count,
                   start_returned,
                   syncVars, trackVars, xfVars, rtVars, offVars, thVars, orthoVars>>

\* KeyboardInterrupt or an exception ends _process_loop
RunInterrupt ==
    /\ run_at = "loop"
    /\ run_at' = "cleanup"
    /\ UNCHANGED <<is_running, osd_sync_thread, osd_rounds, detector_input, srVars,
                   syncVars, trackVars, xfVars, rtVars, offVars, thVars, orthoVars>>

\* _cleanup: is_running = False, stream_reader.stop(), the rest of the teardown
RunCleanup ==
    /\ run_at = "cleanup"
    /\ is_running' = FALSE
    /\ StopReader
    /\ run_at' = "done"
    /\ UNCHANGED <<osd_sync_thread, osd_rounds, detector_input, is_opened,
                   reconnect_count, consecutive_failures, max_reconnect_attempts,
                   frame_buffer, frame_received_count, start_returned,
                   syncVars, trackVars, xfVars, rtVars, offVars, thVars, orthoVars>>

\* _osd_data_loop: the test of `while self.is_running`
OsdCheck ==
    /\ osd_sync_thread = "check"
    /\ osd_sync_thread' = IF is_running THEN "body" ELSE "exited"
    /\ UNCHANGED <<is_running, run_at, osd_rounds, detector_input, srVars,
                   syncVars, trackVars, xfVars, rtVars, offVars, thVars, orthoVars>>

\* _osd_data_loop: the copy of the client's buffer into the synchronizer and
\* the sleep
OsdBody ==
    /\ osd_sync_thread = "body"
    /\ osd_rounds' = Min(osd_rounds + 1, MaxOsdRounds)
    /\ osd_sync_thread' = "check"
    /\ UNCHANGED <<is_running, run_at, detector_input, srVars,
                   syncVars, trackVars, xfVars, rtVars, offVars, thVars, orthoVars>>

InitRun ==
    /\ PlIdle
    /\ SrInit
    /\ max_reconnect_attempts \in ReconnectLimits
    /\ SyncIdle
    /\ TrackIdle
    /\ XfIdle
    /\ RtIdle
    /\ OffIdle
    /\ ThIdle
    /\ OrthoIdle

NextRun ==
    \/ \E connected \in BOOLEAN : RunConnect(connected)
    \/ RunStartOsd
    \/ \E opened \in BOOLEAN : RunStartStream(opened)
    \/ RunSleep
    \/ RunSetRunning
    \/ ProcessLoopStep
    \/ RunInterrupt
    \/ RunCleanup
    \/ OsdCheck
    \/ OsdBody
    \/ ReadLoop

SpecRun == InitRun /\ [][NextRun]_vars

(***************************************************************************)
(* OrthophotoPipeline.run (orthophoto_pipeline.py): the steps of its try   *)
(* block, its except clauses and its finally clause.  The frames           *)
(* themselves are handled as in the offline frame loop above.              *)
(***************************************************************************)
MaxOrthoImages == 3   \* images in the directory of one modelled run

\* the attributes __init__ and _init_components give the pipeline object
PipelineAttributes ==
    {"config_dir", "config_loader", "orthophoto_config", "yolo_config", "camera_config",
     "mrk_parser", "synchronizer", "detector", "camera_model", "transformer",
     "report_gen", "visualizer"}

\* what a run finds on disk and in its configuration
OrthoInputs ==
    [image_dir : BOOLEAN, mrk_file : BOOLEAN, pose_data : BOOLEAN, opens : BOOLEAN,
     images : 0..MaxOrthoImages, visualizer : BOOLEAN]

\* `if self.<name>:` on an object with these attributes
AttributeLookup(attrs, name) == IF name \in attrs THEN "found" ELSE "AttributeError"

\* the finally clause looks the report generator up under this name
FinallyCloses == "report_generator"

\* the steps that leave the other variables alone
OrthoFrame ==
    UNCHANGED <<ortho_input, syncVars, trackVars, xfVars, rtVars, offVars, thVars, runVars>>

\* __init__ has built the ReportGenerator, whose CSVWriter has opened its file
InitOrtho ==
    /\ ortho_input \in OrthoInputs
    /\ ortho_at = "idle"
    /\ image_count = 0
    /\ exit_path = "none"
    /\ csv_file_handle = "open"
    /\ run_raised = "none"
    /\ SyncIdle
    /\ TrackIdle
    /\ XfIdle
    /\ RtIdle
    /\ OffIdle
    /\ ThIdle
    /\ RunIdle

\* run(): no image directory, return before the try block is entered
OrthoRunStart ==
    /\ ortho_at = "idle"
    /\ ortho_at' = IF ortho_input.image_dir THEN "find_mrk" ELSE "returned"
    /\ exit_path' = IF ortho_input.image_dir THEN exit_path ELSE "no_image_dir"
    /\ UNCHANGED <<image_count, csv_file_handle, run_raised>>
    /\ OrthoFrame

\* step 1: _find_mrk_file; `return` inside the try block goes to finally
OrthoFindMrk ==
    /\ ortho_at = "find_mrk"
    /\ ortho_at' = IF ortho_input.mrk_file THEN "parse" ELSE "finally"
    /\ exit_path' = IF ortho_input.mrk_file THEN exit_path ELSE "no_mrk_file"
    /\ UNCHANGED <<image_count, csv_file_handle, run_raised>>
    /\ OrthoFrame

\* step 2: mrk_parser.parse and the add_pose loop
OrthoParseMrk ==
    /\ ortho_at = "parse"
    /\ ortho_at' = IF ortho_input.pose_data THEN "open" ELSE "finally"
    /\ exit_path' = IF ortho_input.pose_data THEN exit_path ELSE "mrk_parse_failed"
    /\ UNCHANGED <<image_count, csv_file_handle, run_raised>>
    /\ OrthoFrame

\* step 3: image_reader.open()
OrthoOpenImages ==
    /\ ortho_at = "open"
    /\ ortho_at' = IF ortho_input.opens THEN "process" ELSE "finally"
    /\ exit_path' = IF ortho_input.opens THEN exit_path ELSE "image_open_failed"
    /\ UNCHANGED <<image_count, csv_file_handle, run_raised>>
    /\ OrthoFrame

\* step 4: one iteration of _process_images
OrthoProcessImage ==
    /\ ortho_at = "process"
    /\ image_count < ortho_input.images
    /\ image_count' = image_count + 1
    /\ UNCHANGED <<ortho_at, exit_path, csv_file_handle, run_raised>>
    /\ OrthoFrame

\* the reader has no image left; steps 5 and 6: image_reader.close(),
\* visualizer.close(), _print_stats()
OrthoProcessDone ==
    /\ ortho_at = "process"
    /\ image_count = ortho_input.images
    /\ ortho_at' = "finally"
    /\ exit_path' = "completed"
    /\ UNCHANGED <<image_count, csv_file_handle, run_raised>>
    /\ OrthoFrame

\* an exception inside the try block while the images are processed:
\* `except KeyboardInterrupt` / `except Exception` log it, then finally
OrthoExcept(exception) ==
    /\ ortho_at = "process"
    /\ ortho_at' = "finally"
    /\ exit_path' = exception
    /\ UNCHANGED <<image_count, csv_file_handle, run_raised>>
    /\ OrthoFrame

\* the finally clause: `if self.report_generator:` and the guarded close()
OrthoFinally ==
    /\ ortho_at = "finally"
    /\ IF AttributeLookup(PipelineAttributes, FinallyCloses) = "AttributeError"
       THEN /\ run_raised' = "AttributeError"
            /\ ortho_at' = "raised"
            /\ UNCHANGED csv_file_handle
       ELSE /\ csv_file_handle' = "closed"
            /\ ortho_at' = "returned"
            /\ UNCHANGED run_raised
    /\ UNCHANGED <<image_count, exit_path>>
    /\ OrthoFrame

\* the pipeline object is built anew for another run
OrthoNextInput ==
    /\ ortho_at \in {"returned", "raised"}
    /\ ortho_input' \in OrthoInputs
    /\ ortho_at' = "idle"
    /\ image_count' = 0
    /\ exit_path' = "none"
    /\ csv_file_handle' = "open"
    /\ run_raised' = "none"
    /\ UNCHANGED <<syncVars, trackVars, xfVars, rtVars, offVars, thVars, runVars>>

NextOrtho ==
    \/ OrthoRunStart
    \/ OrthoFindMrk
    \/ OrthoParseMrk
    \/ OrthoOpenImages
    \/ OrthoProcessImage
    \/ OrthoProcessDone
    \/ \E exception \in {"KeyboardInterrupt", "Exception"} : OrthoExcept(exception)
    \/ OrthoFinally
    \/ OrthoNextInput

SpecOrtho == InitOrtho /\ [][NextOrtho]_vars

(***************************************************************************)
(* Claims about the tracker                                                *)
(***************************************************************************)
IsOutput(r) == r.output

IsDiscard(r) == ~r.output

\* the save calls of the removals, in order
CallsOf(removals) == [i \in 1..Len(SelectSeq(removals, IsOutput)) |->
                        SelectSeq(removals, IsOutput)[i].call]

\* C2: report_gen.save is never invoked for a track whose total_appearances at
\* removal is below min_track_frames: every save call belongs to a removed
\* track that was sighted on at least min_track_frames frames, and every track
\* removed with fewer sightings, by flush_lost_tracks or by flush_all, left
\* without a save call and was counted as discarded.
C2_ShortTracksNeverSaved ==
    /\ report_saved = CallsOf(removed)
    /\ discarded_count = Len(SelectSeq(removed, IsDiscard))
    /\ \A i \in 1..Len(removed) :
          /\ removed[i].track.total_appearances = Len(removed[i].sightings)
          /\ removed[i].output = (Len(removed[i].sightings) >= min_track_frames)
          /\ ~removed[i].output => removed[i].call = None

\* a track seen on one frame only, with min_track_frames = 3, removed by
\* flush_all without a save call
C2_Witness ==
    /\ min_track_frames = DefaultMinTrackFrames
    /\ \E i \in 1..Len(removed) :
          /\ removed[i].by = "flush_all"
          /\ Len(removed[i].sightings) = 1
          /\ ~removed[i].output
    /\ \E i \in 1..Len(removed) :
          /\ removed[i].by = "flush_lost_tracks"
          /\ ~removed[i].output

\* the positions in a track's sightings that carry its highest score
BestSightings(sightings) ==
    { k \in 1..Len(sightings) :
        \A j \in 1..Len(sightings) : sightings[j].score <= sightings[k].score }

\* consecutive sightings are never more than lost_threshold frames apart
CloseSightings(sightings) ==
    \A k \in 1..(Len(sightings) - 1) :
        sightings[k + 1].frame_number - sightings[k].frame_number <= lost_threshold

\* call is the save call made from sighting sg
CallFromSighting(call, sg) ==
    /\ call.frame_number = sg.frame_number
    /\ call.pose = sg.pose
    /\ call.frame = PrepareFrameBuffer(crop_buffer, Frame(sg.frame_number), sg.detection)
    /\ call.detections = TransformDetections(xcfg, Camera, <<sg.detection>>, sg.pose)

\* C3: with flush_lost_tracks called on every frame, a track with at least
\* min_track_frames sightings, consecutive ones never more than lost_threshold
\* frames apart, that then stays absent is saved by exactly one
\* report_gen.save call, made at the first frame f with
\* f - last_seen > lost_threshold and not while the track is active, and the
\* call carries the detection, pose and frame number of a sighting with the
\* highest quality score, also when later sightings scored lower.
C3_OneSaveOfBestWhenLost ==
    /\ Len(report_saved) = Len(SelectSeq(removed, IsOutput))
    /\ \A t \in ActiveIds(active_tracks) : \A i \in 1..Len(removed) :
          removed[i].track.track_id = t =>
              removed[i].at_frame <= seen[t][1].frame_number
    /\ \A i \in 1..Len(removed) :
          LET r == removed[i] IN
          (/\ r.by = "flush_lost_tracks"
           /\ Len(r.sightings) >= min_track_frames
           /\ CloseSightings(r.sightings)) =>
              /\ r.output
              /\ report_saved[Len(SelectSeq(SubSeq(removed, 1, i), IsOutput))] = r.call
              /\ r.track.last_seen = r.sightings[Len(r.sightings)].frame_number
              /\ r.at_frame = r.track.last_seen + lost_threshold + 1
              /\ \E k \in BestSightings(r.sightings) : CallFromSighting(r.call, r.sightings[k])

\* a track whose best sighting was followed by a lower-scored one, saved when
\* it became lost
C3_Witness ==
    \E i \in 1..Len(removed) :
        LET r == removed[i] IN
        /\ r.by = "flush_lost_tracks"
        /\ r.output
        /\ Len(r.sightings) >= 2
        /\ CloseSightings(r.sightings)
        /\ Len(r.sightings) \notin BestSightings(r.sightings)
        /\ r.call.frame_number < r.track.last_seen
        /\ r.call.detections # <<>>

\* C5: while a track stays in active_tracks its best_score never decreases:
\* after every update it is the maximum quality score of the sightings of the
\* track since it was created.
C5_BestScoreIsRunningMax ==
    /\ [](\A i \in 1..Len(active_tracks) :
            LET st == active_tracks[i] IN
            /\ seen[st.track_id] # <<>>
            /\ \A k \in 1..Len(seen[st.track_id]) : seen[st.track_id][k].score <= st.best_score
            /\ \E k \in 1..Len(seen[st.track_id]) : seen[st.track_id][k].score = st.best_score)
    /\ [][\A i \in 1..Len(active_tracks) : \A j \in 1..Len(active_tracks') :
            active_tracks'[j].track_id = active_tracks[i].track_id =>
                active_tracks'[j].best_score >= active_tracks[i].best_score]_vars

\* an active track whose latest sighting scored below its best_score
C5_Witness ==
    \E i \in 1..Len(active_tracks) :
        LET sg == seen[active_tracks[i].track_id] IN
        /\ Len(sg) >= 2
        /\ sg[Len(sg)].score < active_tracks[i].best_score
        /\ sg[1].score < active_tracks[i].best_score
        /\ tm_call.op = "update"

\* the last n removals
LastRemoved(n) == SubSeq(removed, Len(removed) - n + 1, Len(removed))

\* the tracks of a call's snapshot that were more than lost_threshold frames old
GoneAt(tracks, current_frame) ==
    { i \in 1..Len(tracks) : current_frame - tracks[i].last_seen > lost_threshold }

\* C6: flush_lost_tracks(current_frame) removes from active_tracks exactly the
\* tracks with current_frame - last_seen > lost_threshold: each track it flushes
\* or discards has last_seen <= current_frame - (lost_threshold + 1), and each
\* track with current_frame - last_seen <= lost_threshold stays active with its
\* buffered state unchanged.
C6_FlushRemovesExactlyLost ==
    /\ \A i \in 1..Len(removed) :
          removed[i].by = "flush_lost_tracks" =>
              removed[i].track.last_seen <= removed[i].at_frame - (lost_threshold + 1)
    /\ tm_call.op = "flush_lost_tracks" =>
          LET before == tm_call.before
              gone == GoneAt(before, tm_call.current_frame)
              last == LastRemoved(Cardinality(gone))
          IN /\ Len(active_tracks) = Len(before) - Cardinality(gone)
             /\ \A i \in 1..Len(before) :
                   IF i \in gone
                   THEN /\ before[i].track_id \notin ActiveIds(active_tracks)
                        /\ \E k \in 1..Len(last) :
                              /\ last[k].track = before[i]
                              /\ last[k].by = "flush_lost_tracks"
                              /\ last[k].at_frame = tm_call.current_frame
                   ELSE \E j \in 1..Len(active_tracks) : active_tracks[j] = before[i]
             /\ tm_call.returned = Len(SelectSeq(last, IsOutput))

\* a flush_lost_tracks call that removed one track and kept another
C6_Witness ==
    /\ tm_call.op = "flush_lost_tracks"
    /\ Len(tm_call.before) = 2
    /\ Cardinality(GoneAt(tm_call.before, tm_call.current_frame)) = 1
    /\ Len(active_tracks) = 1
    /\ tm_call.current_frame - active_tracks[1].last_seen = lost_threshold

\* C7: flush_all applies the min_track_frames rule to every track still in
\* active_tracks, however recently it was seen, hands the buffered best
\* observation of each qualifying track to report_gen.save once, and leaves
\* active_tracks empty; a second flush_all emits nothing.
C7_FlushAllQualifiesEveryTrack ==
    /\ ended > 0 => active_tracks = <<>>
    /\ tm_call.op = "flush_all" =>
          LET before == tm_call.before
              last == LastRemoved(Len(before))
              calls == CallsOf(last)
          IN /\ Len(removed) >= Len(before)
             /\ \A i \in 1..Len(before) :
                   /\ last[i].track = before[i]
                   /\ last[i].by = "flush_all"
                   /\ last[i].output = (before[i].total_appearances >= min_track_frames)
                   /\ last[i].output =>
                         /\ last[i].call.frame_number = before[i].best_frame_number
                         /\ last[i].call.pose = before[i].best_pose
                         /\ last[i].call.frame = before[i].best_frame
                         /\ last[i].call.detections =
                                TransformDetections(xcfg, Camera,
                                    <<SetKey(before[i].best_detection, "track_id",
                                             before[i].track_id)>>,
                                    before[i].best_pose)
             /\ Len(report_saved) >= Len(calls)
             /\ SubSeq(report_saved, Len(report_saved) - Len(calls) + 1, Len(report_saved))
                    = calls
             /\ tm_call.returned = Len(calls)
    /\ ended = 2 => /\ tm_call.op = "flush_all"
                    /\ tm_call.before = <<>>
                    /\ tm_call.returned = 0

\* flush_all called twice, the first call having saved a track that was seen
\* within lost_threshold frames and discarded another
C7_Witness ==
    /\ ended = 2
    /\ \E i \in 1..Len(removed) :
          /\ removed[i].by = "flush_all"
          /\ removed[i].output
          /\ removed[i].at_frame - removed[i].track.last_seen <= lost_threshold
    /\ \E i \in 1..Len(removed) :
          /\ removed[i].by = "flush_all"
          /\ ~removed[i].output

\* the save calls that hand a record to the report
Records == { i \in 1..Len(report_saved) : report_saved[i].detections # <<>> }

\* C8 as stated: over one run the tracker emits at most one record for any
\* given track identifier.
C8_OneRecordPerTrackId ==
    \A i \in Records : \A j \in Records :
        report_saved[i].detections[1].track_id = report_saved[j].detections[1].track_id
            => i = j

\* C8: over one run the tracker emits at most one record per track, a track
\* being the sightings of one identifier from its creation to its removal from
\* active_tracks: every save call is the one call of one removal, and two
\* removals of the same identifier are of different tracks, the later one
\* created after the earlier one was removed.
C8_OneRecordPerTrackLifetime ==
    /\ Len(report_saved) = Len(SelectSeq(removed, IsOutput))
    /\ \A i \in 1..Len(removed) : \A j \in 1..Len(removed) :
          (i < j /\ removed[i].track.track_id = removed[j].track.track_id) =>
              /\ removed[i].by = "flush_lost_tracks"
              /\ removed[j].track.first_seen > removed[i].at_frame
              /\ removed[j].sightings[1].frame_number = removed[j].track.first_seen
    /\ \A i \in 1..Len(removed) : \A k \in 1..Len(active_tracks) :
          removed[i].track.track_id = active_tracks[k].track_id =>
              active_tracks[k].first_seen > removed[i].at_frame

\* two records of the same track identifier, the second from a track created
\* after the first was flushed
C8_Witness ==
    \E i \in Records : \E j \in Records :
        /\ i < j
        /\ report_saved[i].detections[1].track_id = report_saved[j].detections[1].track_id
        /\ report_saved[j].frame_number > report_saved[i].frame_number + lost_threshold

\* C4 as stated: on the tracker as configured by default, sightings of one
\* track on frames 0 and 10 followed by lost_threshold + 1 frames of absence
\* with flush_lost_tracks called produce exactly one record, from frame 10.
C4_DefaultConfigEmitsFrame10 ==
    (/\ min_track_frames = DefaultMinTrackFrames
     /\ frame_count = ScenarioLastFrame
     /\ step = "next") =>
        /\ Len(report_saved) = 1
        /\ report_saved[1].frame_number = ScenarioSightings[2].frame_number

\* C4: with lost_threshold 30, sightings of one track on frames 0 and 10
\* followed by lost_threshold + 1 frames of absence with flush_lost_tracks
\* called produce exactly one record, from frame 10, when min_track_frames is
\* at most 2; with the default min_track_frames 3 the track is discarded and
\* no record is produced.  Nothing is saved before the last frame's flush.
C4_ScenarioEmitsOnlyIfQualified ==
    /\ (frame_count < ScenarioLastFrame \/ step # "next") =>
          /\ report_saved = <<>>
          /\ discarded_count = 0
    /\ (frame_count = ScenarioLastFrame /\ step = "next") =>
          /\ active_tracks = <<>>
          /\ IF min_track_frames <= Len(ScenarioSightings)
             THEN /\ Len(report_saved) = 1
                  /\ report_saved[1].frame_number = ScenarioSightings[2].frame_number
                  /\ report_saved[1].pose = FramePose(ScenarioSightings[2].frame_number)
                  /\ Len(report_saved[1].detections) = 1
                  /\ report_saved[1].detections[1].confidence = DetFull.confidence
                  /\ discarded_count = 0
             ELSE /\ report_saved = <<>>
                  /\ saved_count = 0
                  /\ discarded_count = 1

\* the default configuration after the last frame's flush: the track is gone
\* and nothing was saved
C4_Witness ==
    /\ min_track_frames = DefaultMinTrackFrames
    /\ lost_threshold = DefaultLostThreshold
    /\ frame_count = ScenarioLastFrame
    /\ step = "next"
    /\ total_updates = 2
    /\ report_saved = <<>>
    /\ discarded_count = 1

\* the earliest of a track's sightings that carries its highest score
EarliestBest(sightings) ==
    CHOOSE k \in BestSightings(sightings) : \A j \in BestSightings(sightings) : k <= j

\* the snapshot of the track state st is the sighting sg, taken as a whole
SnapshotOf(st, sg) ==
    /\ st.best_detection = sg.detection
    /\ st.best_pose = PoseCopy(sg.pose)
    /\ st.best_frame_number = sg.frame_number
    /\ st.best_frame = PrepareFrameBuffer(crop_buffer, Frame(sg.frame_number), sg.detection)
    /\ st.best_score = sg.score

TrackMatchesSightings(st, sightings) ==
    /\ sightings # <<>>
    /\ SnapshotOf(st, sightings[EarliestBest(sightings)])
    /\ st.first_seen = sightings[1].frame_number
    /\ st.first_seen <= st.best_frame_number
    /\ st.best_frame_number <= st.last_seen
    /\ st.last_seen = sightings[Len(sightings)].frame_number
    /\ st.total_appearances = Len(sightings)

\* C26: for every active track, after any sequence of updates, best_detection,
\* best_pose, best_frame_number, best_frame and best_score all come from one
\* sighting, the earliest one with the highest score; first_seen <=
\* best_frame_number <= last_seen; last_seen is the frame number of the most
\* recent sighting; total_appearances is the number of sightings since the
\* track was created.
C26_SnapshotFromOneSighting ==
    \A i \in 1..Len(active_tracks) :
        TrackMatchesSightings(active_tracks[i], seen[active_tracks[i].track_id])

\* an active track sighted three times, its highest score reached twice, the
\* snapshot being the earlier of the two and not the first sighting
C26_Witness ==
    \E i \in 1..Len(active_tracks) :
        LET sg == seen[active_tracks[i].track_id] IN
        /\ Len(sg) = 3
        /\ BestSightings(sg) = {2, 3}
        /\ active_tracks[i].best_frame_number = sg[2].frame_number
        /\ active_tracks[i].best_frame_number < active_tracks[i].last_seen
        /\ active_tracks[i].first_seen < active_tracks[i].best_frame_number

\* the detection records the save calls of a flush were given
RECURSIVE RecordsHanded(_, _)
RecordsHanded(outputs, i) ==
    IF i > Len(outputs) THEN 0
    ELSE (IF outputs[i] = <<>> THEN 0 ELSE Len(outputs[i][1].detections))
         + RecordsHanded(outputs, i + 1)

\* C32 as stated: the tracks ever created are the active ones plus the saved
\* plus the discarded ones (get_stats), also when the transformer drops the
\* detection or raises while a track is output; and flush_all returns the
\* number of records it handed to report_gen.save.
C32_BookkeepingConserved ==
    (xf_output # None /\ xf_output.op = "flush_all") =>
        /\ Len(xf_input.detections) = xf_output.stats.active_tracks
                                       + xf_output.stats.total_saved
                                       + xf_output.stats.total_discarded
        /\ xf_output.flushed = RecordsHanded(xf_output.outputs, 1)

\* the box of a detection: <<x1, y1, x2, y2>>
DetectionBox(detection) ==
    IF Has(detection, "corners")
    THEN <<SeqMin(detection.corners, 1, 1), SeqMin(detection.corners, 1, 2),
           SeqMax(detection.corners, 1, 1), SeqMax(detection.corners, 1, 2)>>
    ELSE detection.xyxy

\* the slice lies within the frame
SliceWithinFrame(b, frame) ==
    /\ 0 <= b.x1 /\ b.x1 <= b.x2 /\ b.x2 <= frame.w
    /\ 0 <= b.y1 /\ b.y1 <= b.y2 /\ b.y2 <= frame.h

\* the slice contains the part of the box that lies inside the frame
SliceContainsVisibleBox(b, box, frame) ==
    /\ b.x1 <= Max(0, box[1]) /\ Min(frame.w, box[3]) <= b.x2
    /\ b.y1 <= Max(0, box[2]) /\ Min(frame.h, box[4]) <= b.y2

\* C38 as stated: in padded-crop mode _prepare_frame_buffer slices within the
\* frame for any detection geometry, boxes partly or wholly outside the image
\* and negative coordinates included: 0 <= x1 <= x2 <= width and
\* 0 <= y1 <= y2 <= height, the crop contains the part of the box inside the
\* frame, and the buffered image is a copy that later changes to the frame do
\* not alter.
C38_CropWithinFrame ==
    (xf_output # None /\ xf_input.crop_buffer) =>
        /\ SliceWithinFrame(xf_output.buffered, xf_output.of_frame)
        /\ SliceContainsVisibleBox(xf_output.buffered, DetectionBox(xf_input.detection),
                                   xf_output.of_frame)
        /\ xf_output.buffered.image = xf_output.of_frame.id

(***************************************************************************)
(* Claims about the transformers                                           *)
(***************************************************************************)
\* C9 as stated, on the tracker's flush path: _output_track passes no
\* detection without geo_coords to report_gen.save, and counts a track as
\* saved only when a detection of it was handed over.
C9_OnlyGeolocatedSavedOrCounted ==
    /\ \A i \in 1..Len(report_saved) : \A k \in 1..Len(report_saved[i].detections) :
          HasGeoCoords(report_saved[i].detections[k])
    /\ saved_count = Cardinality(Records)

\* the world rays of the corners of the transformer call's detection
XfRays == WorldRays(xf_input.cfg, Camera, xf_input.detection.corners, xf_input.pose)

\* the corners whose world ray _ray_ground_intersection rejects
XfRejected ==
    { i \in 1..Len(XfRays) :
        \/ RayNearlyParallel(XfRays[i])
        \/ RayPointsAway(XfRays[i], xf_input.pose.altitude) }

\* C10 as stated: in the 3D transform a world ray with |vertical component|
\* < 1e-6, or one pointing away from the ground, yields no geographic
\* coordinate, and the detection containing it is treated as failed.
C10_RejectedRayFailsDetection ==
    (/\ xf_output # None
     /\ xf_input.cfg.use_enhanced
     /\ Has(xf_input.detection, "corners")
     /\ XfRejected # {}) =>
        /\ ~Has(xf_output.detection, "geo_coords")
        /\ xf_output.detections = <<>>

\* C11 as stated: when the pose lacks latitude, longitude or altitude, or
\* one of them is zero, the transform of the detection fails in both
\* transformers: no geo coordinates are attached and the detection is dropped.
C11_IncompletePositionFailsTransform ==
    (xf_output # None /\ ~PositionComplete(xf_input.pose)) =>
        /\ ~Has(xf_output.detection, "geo_coords")
        /\ xf_output.detections = <<>>

\* C12: evaluate_gps_quality puts every pose into exactly one of INVALID, LOW,
\* MEDIUM, HIGH, RTK and skips only INVALID: with quality control off the
\* result is MEDIUM; otherwise RTK_FIXED gives RTK at 0.05 m and RTK_FLOAT and
\* DGPS give HIGH whatever gps_level and satellite_count are; plain GPS below
\* min_gps_level or min_satellite_count gives INVALID (skip, 10 m) when
\* skip_on_low_quality is on and LOW (no skip, 8 m) when off.  For INVALID
\* pixel_to_geo_3d returns an empty list and the detection gets no output.
C12_GpsQualityClasses ==
    xf_output # None =>
        LET cfg == xf_input.cfg
            pose == xf_input.pose
            q == xf_output.quality
            state == IF Has(pose, "positioning_state") THEN pose.positioning_state ELSE "GPS"
            level == IF Has(pose, "gps_level") THEN pose.gps_level ELSE 0
            weak == level < cfg.min_gps_level \/ pose.satellite_count < cfg.min_satellite_count
        IN /\ q.quality_level \in {"INVALID", "LOW", "MEDIUM", "HIGH", "RTK"}
           /\ q.should_skip = (q.quality_level = "INVALID")
           /\ ~cfg.enable_quality_control => q.quality_level = "MEDIUM"
           /\ (cfg.enable_quality_control /\ state = "RTK_FIXED") =>
                 q.quality_level = "RTK" /\ q.estimated_error = 5
           /\ (cfg.enable_quality_control /\ state \in {"RTK_FLOAT", "DGPS"}) =>
                 q.quality_level = "HIGH"
           /\ (cfg.enable_quality_control /\ state = "GPS" /\ weak) =>
                 IF cfg.skip_on_low_quality
                 THEN q.quality_level = "INVALID" /\ q.estimated_error = 1000
                 ELSE q.quality_level = "LOW" /\ q.estimated_error = 800
           /\ (cfg.enable_quality_control /\ state = "GPS" /\ ~weak) =>
                 q.quality_level \in {"MEDIUM", "HIGH"}
           /\ IF q.should_skip
              THEN /\ xf_output.geo.geo_coords = <<>>
                   /\ xf_output.geo.quality_info.quality_level = "INVALID"
                   /\ xf_output.detection = xf_input.detection
                   /\ xf_output.detections = <<>>
              ELSE /\ Len(xf_output.geo.geo_coords) = Len(xf_input.detection.corners)
                   /\ xf_output.geo.quality_info.quality_level = q.quality_level

\* a plain-GPS pose with a good gps_level and too few satellites, skipped
C12_Witness ==
    /\ xf_output # None
    /\ xf_input.cfg.enable_quality_control
    /\ xf_input.cfg.skip_on_low_quality
    /\ Has(xf_input.pose, "gps_level")
    /\ xf_input.pose.gps_level >= xf_input.cfg.min_gps_level
    /\ xf_input.pose.satellite_count < xf_input.cfg.min_satellite_count
    /\ xf_output.quality.quality_level = "INVALID"
    /\ xf_output.quality.should_skip
    /\ xf_output.detections = <<>>

\* the pose looks straight down by the spec's convention: pitch -90, no roll
LooksStraightDown(pose) == pose.pitch = -90 /\ pose.roll = 0

\* the world ray of the detection's first corner is the nadir ray
FirstRayIsNadir == XfRays[1] = <<0, 0, -RayScale>>

\* C22 as stated: with pitch exactly -90, zero roll, any yaw, altitude > 0 and
\* acceptable GPS quality, the 3D transform of the image-centre pixel yields
\* the vehicle's own latitude and longitude, because the centre ray
\* intersects the ground directly below the vehicle.
C22_CentreRayHitsBelowVehicle ==
    (/\ xf_output # None
     /\ xf_input.cfg.use_enhanced
     /\ xf_input.detection = DetCentre
     /\ LooksStraightDown(xf_input.pose)
     /\ xf_input.pose.altitude > 0
     /\ ~EvaluateGpsQuality(xf_input.cfg, xf_input.pose).should_skip) =>
        /\ HasGeoCoords(xf_output.detection)
        /\ xf_output.detection.geo_coords[1] =
              <<xf_input.pose.latitude, xf_input.pose.longitude>>
        /\ 1 \notin XfRejected
        /\ FirstRayIsNadir

\* C24 as stated: a CameraModel whose resolution, sensor size or focal
\* length is not strictly positive is never constructed, so no instance with
\* such a value reaches a transformer.
C24_InvalidIntrinsicsAbortConstruction ==
    (xf_output # None /\ Has(xf_output, "camera")) =>
        /\ xf_output.camera.image_width > 0 /\ xf_output.camera.image_height > 0
        /\ xf_output.camera.sensor_width > 0 /\ xf_output.camera.sensor_height > 0
        /\ xf_output.camera.focal_length > 0
        /\ Has(xf_output, "gsd") => xf_output.gsd # ZeroDivisionError

\* the detections a batch made of d alone is transformed to
AloneTransformed(d) ==
    IF TransformDetectionRaises(xf_input.cfg, d, xf_input.pose) THEN {}
    ELSE LET r == TransformDetections(xf_input.cfg, Camera, <<d>>, xf_input.pose)
         IN { r[j] : j \in 1..Len(r) }

\* C25 as stated: when a list of detections is transformed, a malformed
\* detection is dropped and the remaining detections of the batch are still
\* transformed and returned; and a failure while outputting one track does
\* not prevent the other tracks from being output.
C25_ErrorsContainedPerDetection ==
    /\ (xf_output # None /\ xf_output.op = "transform_detections") =>
          /\ Has(xf_output.result, "detections")
          /\ \A i \in 1..Len(xf_input.detections) :
                \A x \in AloneTransformed(xf_input.detections[i]) :
                    \E j \in 1..Len(xf_output.result.detections) :
                        xf_output.result.detections[j] = x
    /\ (xf_output # None /\ xf_output.op = "flush_all") =>
          \A i \in 1..Len(xf_input.detections) :
              ~TransformDetectionRaises(xf_input.cfg, xf_input.detections[i], xf_input.pose)
                  => xf_output.outputs[i] # <<>>

\* the intrinsic Z-Y-X matrix Rz(yaw) * Ry(pitch) * Rx(roll)
IntrinsicZyx(yaw, pitch, roll) == MatMul(RotZ(yaw), MatMul(RotY(pitch), RotX(roll)))

\* C35 as stated: the body-to-world rotation _build_rotation_matrix returns is
\* the intrinsic Z-Y-X matrix R = Rz(yaw) * Ry(pitch) * Rx(roll), and it is the
\* same matrix on the scipy path and on the numpy fallback path, for all
\* yaw / pitch / roll that are multiples of 90 degrees.
C35_RotationPathsAgree ==
    xf_input # None =>
        /\ BuildRotationMatrix(xf_input.cfg, xf_input.pose.yaw, xf_input.pose.pitch,
                               xf_input.pose.roll)
              = IntrinsicZyx(xf_input.pose.yaw, xf_input.pose.pitch, xf_input.pose.roll)
        /\ BuildRotationMatrixScipy(xf_input.pose.yaw, xf_input.pose.pitch,
                                    xf_input.pose.roll)
              = BuildRotationMatrixNumpy(xf_input.pose.yaw, xf_input.pose.pitch,
                                         xf_input.pose.roll)

NadirToleranceUdeg == 100   \* 0.0001 degrees, in micro-degrees

\* two coordinates lie in the same direction from the vehicle and within the
\* tolerance of each other
SameGroundPoint(a, b, pose) ==
    /\ Sign(a[1] - pose.latitude) = Sign(b[1] - pose.latitude)
    /\ Sign(a[2] - pose.longitude) = Sign(b[2] - pose.longitude)
    /\ Abs(a[1] - b[1]) <= NadirToleranceUdeg
    /\ Abs(a[2] - b[2]) <= NadirToleranceUdeg

\* C36 as stated: for a nadir pose (pitch -90, roll 0) the 3D
\* attitude-corrected transform and the vertical-projection transform, given
\* the same yaw, altitude and camera, map every pixel to the same ground offset
\* direction and, within tolerance, to the same coordinate.
C36_StrategiesAgreeAtNadir ==
    (/\ xf_output # None
     /\ xf_input.cfg.use_enhanced
     /\ Has(xf_input.detection, "corners")
     /\ LooksStraightDown(xf_input.pose)
     /\ ~EvaluateGpsQuality(xf_input.cfg, xf_input.pose).should_skip) =>
        /\ HasGeoCoords(xf_output.detection)
        /\ \A i \in 1..Len(xf_input.detection.corners) :
              SameGroundPoint(xf_output.detection.geo_coords[i],
                              PixelToGeo(xf_input.cfg, Camera, xf_input.detection.corners,
                                         xf_input.pose)[i],
                              xf_input.pose)

\* the ground offset <<east, north>> of a pixel at yaw 0, in millimetres:
\* image right is east, image up is north
Yaw0Offset(cam, px, altitude) ==
    <<TruncDiv((px[1] - cam.cx) * CalculateGsd(cam, altitude).x, 1000),
      TruncDiv((cam.cy - px[2]) * CalculateGsd(cam, altitude).y, 1000)>>

\* an <<east, north>> offset turned clockwise (north towards east) by a
\* multiple of 90 degrees
RotatedClockwise(off, yaw) ==
    CASE yaw = 0 -> off
      [] yaw = 90 -> <<off[2], -off[1]>>
      [] yaw = 180 -> <<-off[1], -off[2]>>
      [] yaw = 270 -> <<-off[2], off[1]>>

\* what C37 says of one pixel and the coordinate it was given
VerticalProjectionOf(px, geo, pose) ==
    LET rotated == RotatedClockwise(Yaw0Offset(Camera, px, pose.altitude), pose.yaw)
    IN /\ px = <<Camera.cx, Camera.cy>> => geo = <<pose.latitude, pose.longitude>>
       /\ pose.yaw = 0 =>
             /\ Sign(geo[2] - pose.longitude) = Sign(px[1] - Camera.cx)
             /\ Sign(geo[1] - pose.latitude) = Sign(Camera.cy - px[2])
       /\ geo = OffsetToCoord(Camera, rotated[1], rotated[2], pose.latitude, pose.longitude)

\* C37: in vertical-projection mode, before the datum conversion, the
\* principal-point pixel maps to the pose's own latitude / longitude for every
\* yaw; at yaw 0 a pixel right of the principal point maps east and a pixel
\* above it maps north; and for yaw 90, 180, 270 the (east, north) offset is
\* the yaw-0 offset rotated clockwise by yaw.
C37_VerticalProjection ==
    (/\ xf_output # None
     /\ ~xf_input.cfg.use_enhanced
     /\ ~xf_input.cfg.enable_cgcs2000
     /\ Has(xf_input.detection, "corners")) =>
        /\ Has(xf_output.detection, "geo_coords")
        /\ Len(xf_output.detection.geo_coords) = Len(xf_input.detection.corners)
        /\ \A i \in 1..Len(xf_input.detection.corners) :
              VerticalProjectionOf(xf_input.detection.corners[i],
                                   xf_output.detection.geo_coords[i], xf_input.pose)

\* at yaw 90 the principal point got the vehicle's position, and the corner to
\* its right in the same image row lies south of it on the same meridian
C37_Witness ==
    /\ xf_output # None
    /\ ~xf_input.cfg.use_enhanced
    /\ xf_input.detection = DetCentre
    /\ xf_input.pose.yaw = 90
    /\ xf_output.detection.geo_coords[1] = <<xf_input.pose.latitude, xf_input.pose.longitude>>
    /\ xf_output.detection.geo_coords[2][1] < xf_input.pose.latitude
    /\ xf_output.detection.geo_coords[2][2] = xf_input.pose.longitude

(***************************************************************************)
(* Claims about the offline and orthophoto pipelines                       *)
(***************************************************************************)
\* the records of the frames read so far in SRT or orthophoto mode
SyncedFrames ==
    IF off_mode \in {"srt", "orthophoto"} THEN { off_log[i] : i \in 1..Len(off_log) }
    ELSE {}

C15_TimestampToleranceDecides ==
    (sync_method = "timestamp" /\ sync_call.op = "sync" /\ pose_buffer # <<>>) =>
        (sync_call.result # None <=>
            \E i \in 1..Len(pose_buffer) :
                Abs(pose_buffer[i].timestamp - sync_call.frame_timestamp)
                    <= timestamp_tolerance)

\* C21: the offline pipeline (like the realtime one) integrates the track
\* manager: the detections of its frames go through TrackManager.update
\* (obtained with detect_with_tracking), and when the pipeline ends flush_all
\* has been called, so that nothing is saved before its track was flushed.
C21_OfflinePipelineFlushesTracks ==
    (off_mode \in {"srt", "ocr"} /\ off_done) =>
        /\ ended >= 1
        /\ \A i \in 1..Len(off_log) :
              off_log[i].transform => (total_updates >= 1 /\ off_log[i].save = NoSave)

(***************************************************************************)
(* Claims about the realtime pipeline                                      *)
(***************************************************************************)
\* C13: in the realtime pipeline every frame that reaches detection is paired
\* with a pose whose timestamp lies within data_sync.max_time_diff of the frame
\* timestamp; without a pose that fresh the frame is skipped.
C13_RealtimePoseWithinTolerance ==
    rt_call.op = "frame" =>
        Abs(rt_call.frame_timestamp - rt_call.pose.timestamp) <= max_time_diff

\* C18: in realtime mode the synchronizer's pose buffer has bounded size: for
\* any interleaving of the OSD data loop and telemetry arrival it never holds
\* more poses than a fixed bound, here the capacity of the telemetry client's
\* buffer it is filled from.
C18_RealtimeSyncBufferBounded ==
    clients # None => Len(pose_buffer) <= PoseBufferSize

\* the frame being processed comes after HttpMaxFailures frames for which the
\* HTTP interface delivered nothing, and the MQTT client holds a pose
HttpSilentMqttReady ==
    /\ osd_source = "auto"
    /\ active_pose_source = "http"
    /\ now - clients.http.latest_pose.timestamp >= HttpMaxFailures * TickMs
    /\ clients.mqtt.is_connected
    /\ GetLatestPose(clients.mqtt) # None

\* C27 as stated: in auto mode with HTTP active, once the HTTP source has
\* delivered nothing for _http_max_failures consecutive frames the pipeline
\* takes the frame's pose from the connected MQTT client; a frame on which
\* HTTP yields a pose resets the failure counter to 0; OCR is used only on a
\* frame for which neither client yields a pose.
C27_DegradesToMqtt ==
    [][now' # now =>
         /\ HttpSilentMqttReady => (rt_call'.op = "frame" /\ rt_call'.source = "mqtt")
         /\ (rt_call'.op = "frame" /\ rt_call'.source = "http") =>
               http_consecutive_failures' = 0
         /\ (rt_call'.op = "frame" /\ rt_call'.source = "ocr") =>
               /\ GetLatestPose(clients.http) = None
               /\ GetLatestPose(clients.mqtt) = None]_vars

(***************************************************************************)
(* Claims about the background readers                                     *)
(***************************************************************************)
\* C19: every read and write of a telemetry client's pose_buffer and
\* latest_pose and of the RTSP reader's frame_buffer happens while holding the
\* object's buffer_lock; getters hand the main loop a copy, not the shared
\* structure; and no getter waits for data: once it holds the lock it returns,
\* with None or an empty list when there is nothing.
C19_BufferAccessUnderLock ==
    /\ th_unlocked = {}
    /\ ~th_result.shared
    /\ th_main.at = "locked" => ENABLED MainBody
    /\ (th_result.op \in {"get_latest_pose", "get_pose_buffer", "read", "get_frame"}
          /\ th_next = 0) => th_result.value = <<>>

\* C20: once stop() / disconnect() has cleared the flag, the background loop of
\* the RTSP reader and of the HTTP client finishes at most its current
\* iteration and ends (under fair scheduling, the in-flight read returning);
\* stop() / disconnect() return after the join whether or not the thread has
\* ended; and an append made by the draining thread is made under the lock.
C20_ReadersStopGracefully ==
    /\ [](th_kind \in {"http", "rtsp"} /\ ~th_running => <>(th_bg = "done"))
    /\ [](th_main.at = "joining" => <>(th_main.at = "stopped"))
    /\ [](th_stores_after_stop <= 1)
    /\ [](\A a \in th_unlocked : a.thread # "bg")
    /\ [][(~th_running /\ th_bg = "check") => th_bg' \in {"check", "done"}]_vars

\* stop() returned on the timeout while the thread was still draining, and the
\* thread made its last append afterwards and ended
C20_Witness ==
    /\ th_kind \in {"http", "rtsp"}
    /\ th_main = [op |-> "stop", at |-> "stopped"]
    /\ th_stores_after_stop = 1
    /\ th_bg = "done"

\* what a telemetry client shows to a thread that finds buffer_lock free
PoseBufferConsistent ==
    /\ Len(th_buffer) <= PoseBufferSize
    /\ \A i \in 1..(Len(th_buffer) - 1) : th_buffer[i + 1] = th_buffer[i] + 1
    /\ th_latest = <<>> <=> th_buffer = <<>>
    /\ th_buffer # <<>> => th_latest = <<th_buffer[Len(th_buffer)]>>

\* the append of the background thread
AppendStep == th_bg = "locked" /\ th_bg' = "appended"

\* the assignment of latest_pose by the background thread
LatestStep == th_bg = "appended" /\ th_bg' = "check"

\* the locked block of clear_buffer
ClearStep == th_main = [op |-> "clear_buffer", at |-> "locked"] /\ th_main'.at = "idle"

\* what the steps of the two threads do to pose_buffer and latest_pose
PoseBufferSteps ==
    /\ AppendStep =>
          /\ Len(th_buffer') = Min(Len(th_buffer) + 1, PoseBufferSize)
          /\ th_buffer'[Len(th_buffer')] = th_next
          /\ \A i \in 1..(Len(th_buffer') - 1) :
                th_buffer'[i] = th_buffer[Len(th_buffer) - Len(th_buffer') + 1 + i]
    /\ LatestStep => th_latest' = <<th_next>>
    /\ ClearStep => th_latest' = <<>> /\ th_buffer' = <<>>
    /\ th_latest' # th_latest => LatestStep \/ ClearStep
    /\ th_buffer' # th_buffer => AppendStep \/ ClearStep

\* C31: for the MQTT and the HTTP telemetry client, in every state in which
\* buffer_lock is free, pose_buffer holds at most pose_buffer_size poses in
\* arrival order (an append to a full buffer evicts the oldest), latest_pose
\* is None exactly when nothing was stored since construction or the last
\* clear_buffer, and otherwise latest_pose is the newest element of
\* pose_buffer.
C31_PoseBufferAndLatestAgree ==
    /\ [](th_kind \in {"http", "mqtt"} /\ th_lock = "free" => PoseBufferConsistent)
    /\ [][(th_kind \in {"http", "mqtt"}) => PoseBufferSteps]_vars

\* a third pose has arrived in a buffer of two: the first one is gone, the
\* newest is the latest pose, and the lock is free again
C31_Witness ==
    /\ th_kind \in {"http", "mqtt"}
    /\ th_lock = "free"
    /\ PoseBufferSize < th_next
    /\ Len(th_buffer) = PoseBufferSize
    /\ th_latest = <<th_next - 1>>
    /\ th_buffer[1] = th_next - PoseBufferSize

(***************************************************************************)
(* Claims about the synchronizer                                           *)
(***************************************************************************)
\* the time differences of the buffered poses to the frame of the last query
QueryDiffs ==
    { Abs(pose_buffer[i].timestamp - sync_call.frame_timestamp) : i \in 1..Len(pose_buffer) }

\* C1: in timestamp mode sync_frame_with_pose returns None when the buffer is
\* empty or the smallest |pose.timestamp - frame_timestamp| exceeds
\* max_time_diff; it never returns a pose with |dt| > max_time_diff; when the
\* smallest difference is <= max_time_diff (boundary included) it returns a
\* buffered pose achieving the minimum (pose 1000, frame 1600: tolerance 500
\* gives None, tolerance 1000 gives the pose).
C1_SyncWithinTolerance ==
    (sync_method = "timestamp" /\ sync_call.op = "sync") =>
        LET r == sync_call.result
            ft == sync_call.frame_timestamp
        IN /\ (pose_buffer = <<>> => r = None)
           /\ ((\A d \in QueryDiffs : d > max_time_diff) => r = None)
           /\ ((\E d \in QueryDiffs : d <= max_time_diff) => r # None)
           /\ (r # None =>
                  /\ \E i \in 1..Len(pose_buffer) : pose_buffer[i] = r
                  /\ Abs(r.timestamp - ft) <= max_time_diff
                  /\ \A d \in QueryDiffs : Abs(r.timestamp - ft) <= d)
           /\ ((Len(pose_buffer) = 1 /\ pose_buffer[1].timestamp = 1000 /\ ft = 1600) =>
                  /\ (max_time_diff = 500 => r = None)
                  /\ (max_time_diff = 1000 => r = pose_buffer[1]))

\* C1 witness: a query answered with a pose exactly max_time_diff away, chosen
\* among several buffered poses
C1_Witness ==
    /\ sync_method = "timestamp"
    /\ sync_call.op = "sync"
    /\ Len(pose_buffer) >= 2
    /\ sync_call.result # None
    /\ Abs(sync_call.result.timestamp - sync_call.frame_timestamp) = max_time_diff

\* the calls that only query the synchronizer
QueryOps == {"sync", "interpolate"}

\* C16: querying never changes the pose buffer: after any sync_frame_with_pose
\* (timestamp or frame-number mode) or interpolate_pose call the buffer holds
\* the same poses in the same order, so a query repeated with the same
\* arguments returns the same pose; only add_pose and clear_buffer change the
\* buffer.
C16_QueriesLeaveBufferAlone ==
    [][ /\ (sync_call'.op \in QueryOps => pose_buffer' = pose_buffer)
        /\ (pose_buffer' # pose_buffer => sync_call'.op \in {"add_pose", "clear_buffer"})
        /\ (/\ sync_call.op \in QueryOps
            /\ sync_call'.op = sync_call.op
            /\ sync_call'.frame_timestamp = sync_call.frame_timestamp
            /\ (sync_call.op = "sync" => sync_call'.frame_number = sync_call.frame_number)
            => sync_call'.result = sync_call.result) ]_vars

\* a second query was answered with a pose from a buffer of several poses
C16_Witness ==
    /\ sync_call.op = "sync"
    /\ sync_call.result # None
    /\ stats.matched_frames >= 2
    /\ Len(pose_buffer) >= 2

\* C17: add_pose appends a sample that has a timestamp and rejects one lacking
\* it, raising nothing; consequently every pose in the buffer has a usable
\* timestamp and a later sync_frame_with_pose cannot fail on a buffered sample.
C17_BufferedPosesHaveUsableTimestamp ==
    /\ \A i \in 1..Len(pose_buffer) :
          Has(pose_buffer[i], "timestamp") /\ pose_buffer[i].timestamp # NullTimestamp
    /\ sync_call.op = "sync" => sync_call.result # TypeError

\* a sync_frame_with_pose call has been counted
SyncCounted == stats'.total_frames = stats.total_frames + 1

\* the call counted the frame as matched or as unmatched, not both
OneOfMatchedUnmatched ==
    \/ /\ stats'.matched_frames = stats.matched_frames + 1
       /\ stats'.unmatched_frames = stats.unmatched_frames
    \/ /\ stats'.matched_frames = stats.matched_frames
       /\ stats'.unmatched_frames = stats.unmatched_frames + 1

\* the mean of the matched frames' differences stays the mean when a match
\* with difference d is counted: avg' * matched' = avg * matched + d
MeanUpdated(d) ==
    stats'.avg_time_diff.num * stats.avg_time_diff.den * stats'.matched_frames
        = (stats.avg_time_diff.num * stats.matched_frames + d * stats.avg_time_diff.den)
          * stats'.avg_time_diff.den

\* a match in timestamp mode
TimestampMatch ==
    /\ sync_method = "timestamp"
    /\ stats'.matched_frames = stats.matched_frames + 1

\* the answer of a frame-number query: the first buffered pose with that frame
\* number, None when there is none
FrameNumberAnswer ==
    (sync_call.op = "sync" /\ sync_method = "frame_number"
        /\ sync_call.frame_number # NoFrameNumber) =>
        IF \E i \in 1..Len(pose_buffer) :
              Has(pose_buffer[i], "frame_number")
              /\ pose_buffer[i].frame_number = sync_call.frame_number[1]
        THEN /\ sync_call.result # None
             /\ \E i \in 1..Len(pose_buffer) : pose_buffer[i] = sync_call.result
             /\ sync_call.result.frame_number = sync_call.frame_number[1]
        ELSE sync_call.result = None

\* C33 as stated: after any sequence of sync_frame_with_pose calls, for every
\* sync_method and with or without a frame number, total_frames =
\* matched_frames + unmatched_frames and each call increments exactly one of
\* the two; in timestamp mode avg_time_diff is the mean of the time
\* differences of the matched frames; and in frame-number mode the pose returned is a buffered pose with
\* the requested frame_number, None if there is none.
C33_StatsConsistent ==
    /\ [](stats.total_frames = stats.matched_frames + stats.unmatched_frames)
    /\ [][SyncCounted => OneOfMatchedUnmatched]_vars
    /\ [][TimestampMatch =>
            MeanUpdated(Abs(sync_call'.result.timestamp - sync_call'.frame_timestamp))]_vars
    /\ []FrameNumberAnswer

\* the reorderings of a sample list
Reorderings(poses) ==
    { [i \in 1..Len(poses) |-> poses[f[i]]] :
        f \in { g \in [1..Len(poses) -> 1..Len(poses)] :
                  \A a, b \in 1..Len(poses) : a # b => g[a] # g[b] } }

DistinctTimestamps(poses) ==
    \A a, b \in 1..Len(poses) : a # b => poses[a].timestamp # poses[b].timestamp

\* b is a nearest sample at or before t, a a nearest sample at or after t
Brackets(poses, b, a, t) ==
    /\ poses[b].timestamp <= t
    /\ \A i \in 1..Len(poses) :
          poses[i].timestamp <= t => poses[i].timestamp <= poses[b].timestamp
    /\ poses[a].timestamp >= t
    /\ \A i \in 1..Len(poses) :
          poses[i].timestamp >= t => poses[i].timestamp >= poses[a].timestamp

\* the fraction v is the point at t on the line through (t1, x1) and (t2, x2)
OnLine(v, x1, x2, t1, t2, t) ==
    IF t1 = t2 THEN v.num = v.den * x1
    ELSE v.num * (t2 - t1) = v.den * (x1 * (t2 - t1) + (t - t1) * (x2 - x1))

\* r is the interpolation between poses[b] and poses[a] stamped with t
InterpolatesBetween(r, before_pose, after_pose, t) ==
    /\ DOMAIN r = {"timestamp", "latitude", "longitude", "altitude"}
                     \cup { k \in {"yaw", "pitch", "roll"} :
                              Has(before_pose, k) /\ Has(after_pose, k) }
    /\ r.timestamp.num = r.timestamp.den * t
    /\ \A k \in DOMAIN r \ {"timestamp"} :
          OnLine(r[k], before_pose[k], after_pose[k],
                 before_pose.timestamp, after_pose.timestamp, t)

\* the parts of the claim that do not concern the order of the list
InterpolateResult(poses, t, r) ==
    LET n == Len(poses)
        first == { i \in 1..n : \A j \in 1..n : poses[i].timestamp <= poses[j].timestamp }
        last == { i \in 1..n : \A j \in 1..n : poses[i].timestamp >= poses[j].timestamp }
    IN /\ n < 2 => r = None
       /\ (n >= 2 /\ \A i \in 1..n : poses[i].timestamp > t) =>
             r \in { poses[i] : i \in first }
       /\ (n >= 2 /\ \A i \in 1..n : poses[i].timestamp < t) =>
             r \in { poses[i] : i \in last }
       /\ (/\ n >= 2
           /\ \E i \in 1..n : poses[i].timestamp <= t
           /\ \E i \in 1..n : poses[i].timestamp >= t) =>
             \E b, a \in 1..n :
                 /\ Brackets(poses, b, a, t)
                 /\ InterpolatesBetween(r, poses[b], poses[a], t)

OrderIndependent(poses, t, r) ==
    \A q \in Reorderings(poses) : InterpolatePoseOp(t, q) = r

\* C23 as stated: interpolate_pose returns None for fewer than 2 samples;
\* between two samples it returns a pose stamped with the frame timestamp and
\* linearly interpolated between the nearest sample at or before and the
\* nearest at or after; outside the samples it returns the endpoint sample;
\* the result does not depend on the order of the input list.
C23_InterpolateAnyOrder ==
    sync_call.op = "interpolate_list" =>
        /\ InterpolateResult(sync_call.poses, sync_call.frame_timestamp, sync_call.result)
        /\ OrderIndependent(sync_call.poses, sync_call.frame_timestamp, sync_call.result)

\* C23, amended: the same, with the order of the list immaterial when the
\* samples' timestamps are pairwise distinct (samples with equal timestamps
\* keep their input order in the sort, and that order picks the neighbour).
C23_InterpolatePose ==
    sync_call.op = "interpolate_list" =>
        /\ InterpolateResult(sync_call.poses, sync_call.frame_timestamp, sync_call.result)
        /\ DistinctTimestamps(sync_call.poses) =>
              OrderIndependent(sync_call.poses, sync_call.frame_timestamp,
                               sync_call.result)

\* a call strictly between two samples of a three-sample list given out of order
C23_Witness ==
    /\ sync_call.op = "interpolate_list"
    /\ Len(sync_call.poses) = 3
    /\ DistinctTimestamps(sync_call.poses)
    /\ sync_call.poses[1].timestamp > sync_call.poses[2].timestamp
    /\ sync_call.frame_timestamp = 1500
    /\ Has(sync_call.result, "yaw")
    /\ sync_call.result.latitude = [num |-> 23050, den |-> 1]

(***************************************************************************)
(* Claims about RealtimePipeline.run and the stream reader                 *)
(***************************************************************************)
\* C28 as stated: the OSD data-sync thread is alive for as long as the
\* frame-processing loop is running, and in no interleaving does it exit
\* before the processing loop has started; it ends only after cleanup.
C28_OsdThreadAliveWhileLooping ==
    /\ run_at = "loop" => osd_sync_thread \in {"check", "body"}
    /\ osd_sync_thread = "exited" => run_at = "done"

\* C29 as stated: the processing loop hands each frame captured by the read
\* thread to the detector at most once, in any interleaving of the two
\* threads, also when the stream stalls or has ended; so the detector is
\* called no more often than frames were captured.
C29_EachFrameDetectedOnce ==
    /\ \A i, j \in 1..Len(detector_input) :
          i # j => detector_input[i] # detector_input[j]
    /\ Len(detector_input) <= frame_received_count

\* C30 as stated: after 10 consecutive failed reads the reader drops the
\* connection; with max_reconnect_attempts = N > 0 it makes at most N failed
\* reconnect attempts in a row and then stops reading; a successful reconnect
\* resets reconnect_count to 0; is_running is True exactly while the read
\* thread is alive, so that start() launches a new thread after the loop has
\* ended by itself.
C30_ReconnectsThenRestartable ==
    /\ is_opened => consecutive_failures < MaxConsecutiveFailures
    /\ max_reconnect_attempts > 0 => reconnect_count <= max_reconnect_attempts
    /\ is_opened => reconnect_count = 0
    /\ read_thread = "ended" => ~sr_is_running
    /\ start_returned = "already running" => read_thread = "alive"

(***************************************************************************)
(* Claims about OrthophotoPipeline.run                                     *)
(***************************************************************************)
\* run() has left through its try block
OrthoRunEnded == ortho_at \in {"returned", "raised"} /\ exit_path # "no_image_dir"

\* C34 as stated: on every exit path of OrthophotoPipeline.run after the
\* report generator has been set up (completion, missing MRK file, failed
\* image open, KeyboardInterrupt, processing error) the report generator has
\* been closed, releasing the CSV file handle, and run returns without raising.
C34_ReportClosedOnEveryExit ==
    OrthoRunEnded => csv_file_handle = "closed" /\ run_raised = "none"

====
